---- MODULE Spec2Model ----
(***************************************************************************)
(* A model of the azul scheduler (timers, tasks, one-shot threads), of    *)
(* tag assignment (ui_state_from_dom) with the hover pass and the layout   *)
(* step, of StackCheckedPointer, of TimerId allocation, of                 *)
(* Dimension::resolve and of the main/cross selectors of Style.            *)
(*                                                                         *)
(* Instants and Durations are natural numbers (ticks of the monotonic      *)
(* clock).  Option<T> is a sequence of length 0 (None) or 1 (Some(x)).     *)
(***************************************************************************)
EXTENDS Integers, Sequences, FiniteSets, TLC

\* ------------------------------------------------------------------ bounds
\* Last instant of the monotonic clock that the model reaches.
MaxTime == 2
\* Largest Duration a timer is configured with (delay, interval, timeout).
MaxDur == 2
\* Number of TimerIds handed out by TimerId::new.
MaxTimerIds == 1
\* Number of tasks (worker threads) spawned.
MaxTasks == 1
\* Number of tasks spawned by the code that uses the Task API directly.
MaxPolledTasks == 2
\* Number of tasks spawned over the frames whose task reaping is looked at.
MaxReapTasks == 2
\* Number of one-shot Threads created.
MaxThreads == 2
\* Number of nodes of a document tree.
MaxNodes == 2
\* Number of features (callbacks, default callbacks, draggable flag, tab index,
\* css override) that the nodes of one input tree carry in total.
MaxFeatures == 2

\* Features of a whole tree, in total, where the hover pass runs on the tree.
MaxHoverFeatures == 1

\* Window ids; layout steps of a run.
MaxWindows == 1
MaxLayoutSteps == 2

\* The largest usize of the scaled machine: addresses, sizes and the id counter are
\* taken modulo UsizeMax + 1.
UsizeMax == 7
\* The largest type id; the type with id k has a size of k \div 2 + 1 bytes.
MaxTypeId == 3
\* Threads that allocate TimerIds at the same time.
MaxIdThreads == 2
\* The f32 inputs of Dimension::resolve are the numbers n / d with |n| <= MaxDimNum
\* and d = 1 or 2.
MaxDimNum == 3
\* The number of different Dimensions the fields of a Style are drawn from.
MaxStyleDims == 2

\* ------------------------------------------------------------------ Option
None == <<>>
Some(x) == <<x>>
IsSome(o) == Len(o) = 1
IsNone(o) == Len(o) = 0
Unwrap(o) == o[1]
Option(S) == {None} \cup {Some(x) : x \in S}

Instants == 0..MaxTime
Durations == 0..MaxDur

\* The timer configurations <<delay, interval, timeout>> that the callbacks of the
\* frame driver draw from.  While the clock stands still a delay and a timeout have
\* no effect; with a running clock each option is absent, or the longest delay and
\* interval and the shortest timeout.
FrozenClockConfigs == {None} \X {None, Some(MaxDur)} \X {None}
RunningClockConfigs == {None, Some(MaxDur)} \X {None, Some(MaxDur)} \X {None, Some(0)}

\* ------------------------------------------------------------------ callbacks.rs / async.rs enums
Redraw == "Redraw"
DontRedraw == "DontRedraw"
UpdateScreen == {Redraw, DontRedraw}
Terminate == "Terminate"
Continue == "Continue"
TerminateTimer == {Terminate, Continue}
TimerCallbackReturn == UpdateScreen \X TerminateTimer

VARIABLES
    now,                \* the monotonic clock read by Instant::now()
    main_panicked,      \* the main thread has unwound with a panic
    tm_timer,           \* SpecTimer: Option<Timer>, the timer under evaluation
    tm_alive,           \* SpecTimer: the timer is still in the timer map
    tm_last_eval,       \* SpecTimer: Option of the record of the last evaluation
    tm_prev_call,       \* SpecTimer: Option<Instant> of the invocation before the last one
    tm_last_call,       \* SpecTimer: Option<Instant> of the last actual invocation
    timers,             \* AppState::timers: TimerId -> Timer
    tasks,              \* AppState::tasks: Vec<Task>
    MAX_DAEMON_ID,      \* the static counter behind TimerId::new
    workers,            \* the task worker threads: worker id -> [state, holds_check]
    phase,              \* position of the frame driver inside the frame
    pending,            \* timers the current timer pass has not yet visited
    redraw,             \* aggregate redraw vote of the current frame
    layout_ran,         \* the layout function ran at the end of the last completed frame
    timers_redraw,      \* redraw decision of the running timer pass
    votes,              \* history: [frame, timers], a callback invoked in this frame / in this
                        \* timer pass, or the task reaping, voted Redraw
    last_eval,          \* history: Option of the record of the last timer evaluation
    cont_log,           \* history: continuation TimerId -> [worker, age, fresh, first_eval, called]
    fin_seen,           \* history: workers whose task's is_finished has returned true
    fin_last,           \* history: Option of the record of the last is_finished call
    drop_log,           \* history: Option of the record of the last explicit drop of a Task
    threads,            \* the one-shot Threads, their workers and what became of them
    crashed,            \* the process was killed by a fault (outcome of undefined behaviour)
    TAG_ID,             \* the process-wide tag id counter
    DOM_ID,             \* the process-wide DOM id counter
    ui_state,           \* Option of the UiState built by the last tag assignment
    ui_state_prev,      \* Option of the UiState built by the tag assignment before it
    hover_log,          \* history: Option of the record of the last hover pass
    api_log,            \* history: Option of the record of the last scheduler API call
    deleted,            \* history: the TimerIds deleted and not added again since
    windows,            \* the keys of AppState::windows
    frames,             \* the number of layout steps made
    layout_log,         \* history: Option of the record of the last layout step
    ptr,                \* Option<StackCheckedPointer> built by the last StackCheckedPointer::new
    ptr_copy,           \* Option<StackCheckedPointer>: a clone of ptr
    ptr_log,            \* history: Option of the record of the last StackCheckedPointer::new
    cast_log,           \* history: Option of the record of the last cast
    issued,             \* history: the TimerIds handed out, [thread, id], in the order of issue
    resolve_log,        \* history: Option of the record of the last Dimension::resolve
    style_log,          \* history: Option of the record of the last reading of a Style
    ui_states           \* the UiStates of the two trees of one frame, each as built and as it is

vars == <<now, main_panicked,
          tm_timer, tm_alive, tm_last_eval, tm_prev_call, tm_last_call,
          timers, tasks, MAX_DAEMON_ID, workers, phase, pending, redraw, layout_ran, timers_redraw, votes,
          last_eval, cont_log, fin_seen, fin_last, drop_log, threads, crashed,
          TAG_ID, DOM_ID, ui_state, ui_state_prev, hover_log, api_log, deleted,
          windows, frames, layout_log, ptr, ptr_copy, ptr_log, cast_log, issued, resolve_log,
          style_log, ui_states>>

common_vars == <<now, main_panicked>>
tm_vars == <<tm_timer, tm_alive, tm_last_eval, tm_prev_call, tm_last_call>>
sched_vars == <<timers, tasks, MAX_DAEMON_ID, workers, phase, pending, redraw, layout_ran, timers_redraw, votes,
                last_eval, cont_log>>
task_vars == <<fin_seen, fin_last, drop_log>>
thread_vars == <<threads, crashed>>
tag_vars == <<TAG_ID, DOM_ID, ui_state, ui_state_prev, hover_log>>
api_vars == <<api_log, deleted>>
layout_vars == <<windows, frames, layout_log>>
ptr_vars == <<ptr, ptr_copy, ptr_log, cast_log>>
id_vars == <<issued>>
dim_vars == <<resolve_log>>
more_vars == <<style_log, ui_states>>
rest_vars == <<layout_vars, ptr_vars, id_vars, dim_vars, more_vars>>

\* ------------------------------------------------------------------ Timer (async.rs)
Timer_new(callback, instant_now) ==
    [created |-> instant_now, last_run |-> None, delay |-> None,
     interval |-> None, timeout |-> None, callback |-> callback]

with_delay(self, delay) == [self EXCEPT !.delay = Some(delay)]

with_interval(self, interval) == [self EXCEPT !.interval = Some(interval)]

with_timeout(self, timeout) == [self EXCEPT !.timeout = Some(timeout)]

\* A timer built by Timer::new followed by the builder calls the options select.
BuildTimer(callback, instant_now, d, i, t) ==
    LET t0 == Timer_new(callback, instant_now)
        t1 == IF IsSome(d) THEN with_delay(t0, Unwrap(d)) ELSE t0
        t2 == IF IsSome(i) THEN with_interval(t1, Unwrap(i)) ELSE t1
    IN IF IsSome(t) THEN with_timeout(t2, Unwrap(t)) ELSE t2

\* Instant - Instant is Instant::duration_since.  On a negative difference it panics
\* or saturates to 0, depending on the standard library the crate is built with:
\* an evaluation takes sub_panics from BOOLEAN, so the behaviours of both are covered.
InstantSubNegative(a, b) == a < b
InstantSub(a, b) == IF a < b THEN 0 ELSE a - b

\* `self.delay.unwrap_or_else(|| Duration::from_millis(0))`
DelayOf(self) == IF IsSome(self.delay) THEN Unwrap(self.delay) ELSE 0

\* `match self.last_run { Some(s) => s, None => self.created + delay }`
LastRunAnchor(self) ==
    IF IsSome(self.last_run) THEN Unwrap(self.last_run) ELSE self.created + DelayOf(self)

\* `if let Some(timeout) = self.timeout { if instant_now - self.created > timeout ...`
TimeoutReached(self, instant_now) ==
    /\ IsSome(self.timeout)
    /\ InstantSub(instant_now, self.created) > Unwrap(self.timeout)

\* `if let Some(interval) = self.interval { ... if instant_now - last_run < interval`
IntervalNotElapsed(self, instant_now) ==
    /\ IsSome(self.interval)
    /\ InstantSub(instant_now, LastRunAnchor(self)) < Unwrap(self.interval)

\* The evaluation unwinds in one of its two subtractions.
InvokePanics(self, instant_now, sub_panics) ==
    /\ sub_panics
    /\ \/ IsSome(self.timeout) /\ InstantSubNegative(instant_now, self.created)
       \/ /\ ~TimeoutReached(self, instant_now)
          /\ IsSome(self.interval)
          /\ InstantSubNegative(instant_now, LastRunAnchor(self))

\* A Timer::invoke that tests the interval before the timeout.
invoke_interval_first(self, instant_now, cb_ret, sub_panics) ==
    IF InvokePanics(self, instant_now, sub_panics)
    THEN [timer |-> self, ret |-> <<DontRedraw, Continue>>, called |-> FALSE, panicked |-> TRUE]
    ELSE IF IntervalNotElapsed(self, instant_now)
    THEN [timer |-> self, ret |-> <<DontRedraw, Continue>>, called |-> FALSE, panicked |-> FALSE]
    ELSE IF TimeoutReached(self, instant_now)
    THEN [timer |-> self, ret |-> <<DontRedraw, Terminate>>, called |-> FALSE, panicked |-> FALSE]
    ELSE [timer |-> [self EXCEPT !.last_run = Some(instant_now)],
          ret |-> cb_ret, called |-> TRUE, panicked |-> FALSE]

\* A Timer::invoke that asks for a redraw when it skips the callback.
invoke_skip_redraws(self, instant_now, cb_ret, sub_panics) ==
    IF InvokePanics(self, instant_now, sub_panics)
    THEN [timer |-> self, ret |-> <<DontRedraw, Continue>>, called |-> FALSE, panicked |-> TRUE]
    ELSE IF TimeoutReached(self, instant_now)
    THEN [timer |-> self, ret |-> <<DontRedraw, Terminate>>, called |-> FALSE, panicked |-> FALSE]
    ELSE IF IntervalNotElapsed(self, instant_now)
    THEN [timer |-> self, ret |-> <<Redraw, Continue>>, called |-> FALSE, panicked |-> FALSE]
    ELSE [timer |-> [self EXCEPT !.last_run = Some(instant_now)],
          ret |-> cb_ret, called |-> TRUE, panicked |-> FALSE]

\* A Timer::invoke that calls the callback and drops its redraw vote.
invoke_drops_vote(self, instant_now, cb_ret, sub_panics) ==
    IF InvokePanics(self, instant_now, sub_panics)
    THEN [timer |-> self, ret |-> <<DontRedraw, Continue>>, called |-> FALSE, panicked |-> TRUE]
    ELSE IF TimeoutReached(self, instant_now)
    THEN [timer |-> self, ret |-> <<DontRedraw, Terminate>>, called |-> FALSE, panicked |-> FALSE]
    ELSE IF IntervalNotElapsed(self, instant_now)
    THEN [timer |-> self, ret |-> <<DontRedraw, Continue>>, called |-> FALSE, panicked |-> FALSE]
    ELSE [timer |-> [self EXCEPT !.last_run = Some(instant_now)],
          ret |-> <<DontRedraw, cb_ret[2]>>, called |-> TRUE, panicked |-> FALSE]

\* A Timer::invoke that notes an evaluation as a run also when it skips the callback.
invoke_skip_notes_run(self, instant_now, cb_ret, sub_panics) ==
    IF InvokePanics(self, instant_now, sub_panics)
    THEN [timer |-> self, ret |-> <<DontRedraw, Continue>>, called |-> FALSE, panicked |-> TRUE]
    ELSE IF TimeoutReached(self, instant_now)
    THEN [timer |-> self, ret |-> <<DontRedraw, Terminate>>, called |-> FALSE, panicked |-> FALSE]
    ELSE IF IntervalNotElapsed(self, instant_now)
    THEN [timer |-> [self EXCEPT !.last_run = Some(instant_now)],
          ret |-> <<DontRedraw, Continue>>, called |-> FALSE, panicked |-> FALSE]
    ELSE [timer |-> [self EXCEPT !.last_run = Some(instant_now)],
          ret |-> cb_ret, called |-> TRUE, panicked |-> FALSE]

\* A Timer::invoke that calls the callback and does not note the run.
invoke_forgets_last_run(self, instant_now, cb_ret, sub_panics) ==
    IF InvokePanics(self, instant_now, sub_panics)
    THEN [timer |-> self, ret |-> <<DontRedraw, Continue>>, called |-> FALSE, panicked |-> TRUE]
    ELSE IF TimeoutReached(self, instant_now)
    THEN [timer |-> self, ret |-> <<DontRedraw, Terminate>>, called |-> FALSE, panicked |-> FALSE]
    ELSE IF IntervalNotElapsed(self, instant_now)
    THEN [timer |-> self, ret |-> <<DontRedraw, Continue>>, called |-> FALSE, panicked |-> FALSE]
    ELSE [timer |-> self, ret |-> cb_ret, called |-> TRUE, panicked |-> FALSE]

\* Timer::invoke.  cb_ret is what the callback returns if it is called.
invoke(self, instant_now, cb_ret, sub_panics) ==
    IF InvokePanics(self, instant_now, sub_panics)
    THEN [timer |-> self, ret |-> <<DontRedraw, Continue>>, called |-> FALSE, panicked |-> TRUE]
    ELSE IF TimeoutReached(self, instant_now)
    THEN [timer |-> self, ret |-> <<DontRedraw, Terminate>>, called |-> FALSE, panicked |-> FALSE]
    ELSE IF IntervalNotElapsed(self, instant_now)
    THEN [timer |-> self, ret |-> <<DontRedraw, Continue>>, called |-> FALSE, panicked |-> FALSE]
    ELSE [timer |-> [self EXCEPT !.last_run = Some(instant_now)],
          ret |-> cb_ret, called |-> TRUE, panicked |-> FALSE]

\* ------------------------------------------------------------------ the clock
Tick ==
    /\ ~main_panicked
    /\ now < MaxTime
    /\ now' = now + 1
    /\ UNCHANGED main_panicked

\* ------------------------------------------------------------------ SpecTimer: one timer, any evaluation instants
TmNew ==
    /\ ~main_panicked
    /\ IsNone(tm_timer)
    /\ \E d \in Option(Durations), i \in Option(Durations), t \in Option(Durations) :
          tm_timer' = Some(BuildTimer("timer_cb", now, d, i, t))
    /\ tm_alive' = TRUE
    /\ UNCHANGED <<tm_last_eval, tm_prev_call, tm_last_call, common_vars, sched_vars, task_vars, thread_vars, tag_vars, api_vars, rest_vars>>

\* One evaluation of the timer by the timer pass: invoke, then removal on Terminate.
\* The clock goes on by cb_ticks while the callback runs.
TmEvaluate ==
    /\ ~main_panicked
    /\ IsSome(tm_timer)
    /\ tm_alive
    /\ \E cb_ret \in TimerCallbackReturn, sub_panics \in BOOLEAN, cb_ticks \in 0..(MaxTime - now) :
          LET self == Unwrap(tm_timer)
              r == invoke(self, now, cb_ret, sub_panics)
          IN /\ tm_timer' = Some(r.timer)
             /\ main_panicked' = r.panicked
             /\ tm_alive' = (r.panicked \/ r.ret[2] = Continue)
             /\ now' = IF r.called THEN now + cb_ticks ELSE now
             /\ tm_last_eval' = Some([at |-> now, before |-> self, called |-> r.called,
                                      ret |-> r.ret, panicked |-> r.panicked,
                                      cb_ret |-> IF r.called THEN Some(cb_ret) ELSE None])
             /\ tm_prev_call' = IF r.called THEN tm_last_call ELSE tm_prev_call
             /\ tm_last_call' = IF r.called THEN Some(now) ELSE tm_last_call
    /\ UNCHANGED <<sched_vars, task_vars, thread_vars, tag_vars, api_vars, rest_vars>>


\* ------------------------------------------------------------------ TimerId (async.rs)
\* A TimerId::new that reads the counter after the counter was reset.
TimerId_new_after_reset(counter) == [id |-> 0, counter |-> counter + 1]

\* `MAX_DAEMON_ID.fetch_add(1, Ordering::SeqCst)`: the id is the old value of the counter.
TimerId_new(counter) == [id |-> counter, counter |-> (counter + 1) % (UsizeMax + 1)]

\* ------------------------------------------------------------------ impl_task_api (app.rs)
EmptyMap == [k \in {} |-> None]

\* An add_timer that keeps the timer already stored under the id.
add_timer_keeps_existing(map, id, timer) ==
    [k \in DOMAIN map \cup {id} |-> IF k \in DOMAIN map THEN map[k] ELSE timer]

add_timer(map, id, timer) ==
    [k \in DOMAIN map \cup {id} |-> IF k = id THEN timer ELSE map[k]]

get_timer(map, timer_id) == IF timer_id \in DOMAIN map THEN Some(map[timer_id]) ELSE None

has_timer(map, timer_id) == IsSome(get_timer(map, timer_id))

\* A delete_timer that takes a copy of the timer and leaves it in the map.
delete_timer_keeps(map, timer_id) == map

delete_timer(map, timer_id) == [k \in DOMAIN map \ {timer_id} |-> map[k]]

\* What delete_timer returns: `self.timers.remove(timer_id)`, the removed timer if any.
delete_timer_result(map, timer_id) ==
    IF timer_id \in DOMAIN map THEN Some(map[timer_id]) ELSE None

\* An add_task that puts the task in front of the list.
add_task_in_front(list, task) == <<task>> \o list

add_task(list, task) == Append(list, task)

\* ------------------------------------------------------------------ Task (async.rs)
\* The worker thread of a task: it holds the DropCheck (the only strong reference of
\* the Arc<()>) from the spawn until it drops it.
WorkerSpawned == [state |-> "spawned", holds_check |-> TRUE]

\* Task::new: w is the thread that thread::spawn created.
Task_new(w) == [join_handle |-> Some(w), dropcheck |-> w, after_completion_timer |-> None]

then(self, timer) == [self EXCEPT !.after_completion_timer = Some(timer)]

\* A strong count for a DropCheck that is only made once the thread runs.
ArcStrong_made_in_thread(ws, w) == IF ws[w].state = "running" /\ ws[w].holds_check THEN 1 ELSE 0

\* Strong count of the Arc<()> the task's Weak points to.
ArcStrong(ws, w) == IF ws[w].holds_check THEN 1 ELSE 0

\* An is_finished that tests `is_some()`.
is_finished_is_some(self, ws) == ArcStrong(ws, self.dropcheck) # 0

\* `self.dropcheck.upgrade().is_none()`
is_finished(self, ws) == ArcStrong(ws, self.dropcheck) = 0

WorkerEnded(ws, w) == ws[w].state \in {"returned", "panicked"}

\* Drop for Task: `thread_handle.join()` returns once the thread has ended ...
Task_drop_blocks(self, ws) ==
    IsSome(self.join_handle) /\ ~WorkerEnded(ws, Unwrap(self.join_handle))

\* ... with Err if the thread panicked, which `.unwrap()` turns into a panic of the caller.
Task_drop_panics(self, ws) ==
    IsSome(self.join_handle) /\ ws[Unwrap(self.join_handle)].state = "panicked"

\* The thread starts to run the closure `callback(data, DropCheck(thread_check))`.
WorkerStart ==
    /\ \E w \in DOMAIN workers :
          /\ workers[w].state = "spawned"
          /\ workers' = [workers EXCEPT ![w].state = "running"]
    /\ UNCHANGED <<timers, tasks, MAX_DAEMON_ID, phase, pending, redraw, layout_ran, timers_redraw, votes,
                   last_eval, cont_log>>

\* The user function drops the DropCheck before it returns.
WorkerDropCheck ==
    /\ \E w \in DOMAIN workers :
          /\ workers[w].state = "running"
          /\ workers[w].holds_check
          /\ workers' = [workers EXCEPT ![w].holds_check = FALSE]
    /\ UNCHANGED <<timers, tasks, MAX_DAEMON_ID, phase, pending, redraw, layout_ran, timers_redraw, votes,
                   last_eval, cont_log>>

\* The user function returns; a DropCheck it still holds goes out of scope.
WorkerReturn ==
    /\ \E w \in DOMAIN workers :
          /\ workers[w].state = "running"
          /\ workers' = [workers EXCEPT ![w] = [state |-> "returned", holds_check |-> FALSE]]
    /\ UNCHANGED <<timers, tasks, MAX_DAEMON_ID, phase, pending, redraw, layout_ran, timers_redraw, votes,
                   last_eval, cont_log>>

\* The user function panics; unwinding drops a DropCheck it still holds.
WorkerPanic ==
    /\ \E w \in DOMAIN workers :
          /\ workers[w].state = "running"
          /\ workers' = [workers EXCEPT ![w] = [state |-> "panicked", holds_check |-> FALSE]]
    /\ UNCHANGED <<timers, tasks, MAX_DAEMON_ID, phase, pending, redraw, layout_ran, timers_redraw, votes,
                   last_eval, cont_log>>

\* ------------------------------------------------------------------ frame driver
\* TimerIds a callback of the application can hold: those it got from TimerId::new.
UserIds == (0..(MAX_DAEMON_ID - 1)) \ DOMAIN cont_log

\* An input callback adds a timer under a new id, or under an id it already holds.
CbAddTimer(configs) ==
    /\ ~main_panicked
    /\ phase = "input"
    /\ \E c \in configs :
          LET timer == BuildTimer("timer_cb", now, c[1], c[2], c[3])
          IN \/ /\ MAX_DAEMON_ID < MaxTimerIds
                /\ timers' = add_timer(timers, TimerId_new(MAX_DAEMON_ID).id, timer)
                /\ MAX_DAEMON_ID' = TimerId_new(MAX_DAEMON_ID).counter
             \/ /\ \E id \in UserIds : timers' = add_timer(timers, id, timer)
                /\ UNCHANGED MAX_DAEMON_ID
    /\ UNCHANGED <<tasks, workers, phase, pending, redraw, layout_ran, timers_redraw, votes, last_eval, cont_log>>

\* An input callback calls TimerId::new() until it gets the id usize::MAX, and keeps
\* none of the ids: the fetch_add that returns usize::MAX leaves the counter at 0.
RECURSIVE TimerId_new_until_max(_)
TimerId_new_until_max(counter) ==
    LET r == TimerId_new(counter)
    IN IF r.id = UsizeMax THEN r.counter ELSE TimerId_new_until_max(r.counter)

CbExhaustTimerIds ==
    /\ ~main_panicked
    /\ phase = "input"
    /\ MAX_DAEMON_ID' = TimerId_new_until_max(MAX_DAEMON_ID)
    /\ UNCHANGED <<timers, tasks, workers, phase, pending, redraw, layout_ran, timers_redraw, votes,
                   last_eval, cont_log>>

\* An input callback deletes a timer whose id it holds.
CbDeleteTimer ==
    /\ ~main_panicked
    /\ phase = "input"
    /\ \E id \in UserIds : timers' = delete_timer(timers, id)
    /\ UNCHANGED <<tasks, MAX_DAEMON_ID, workers, phase, pending, redraw, layout_ran, timers_redraw, votes,
                   last_eval, cont_log>>

\* An input callback spawns a task, with or without a continuation timer.
CbAddTask(configs) ==
    /\ ~main_panicked
    /\ phase = "input"
    /\ Len(workers) < MaxTasks
    /\ LET w == Len(workers) + 1
       IN /\ workers' = Append(workers, WorkerSpawned)
          /\ \/ tasks' = add_task(tasks, Task_new(w))
             \/ \E c \in configs :
                   tasks' = add_task(tasks, then(Task_new(w),
                                                 BuildTimer("then_cb", now, c[1], c[2], c[3])))
    /\ UNCHANGED <<timers, MAX_DAEMON_ID, phase, pending, redraw, layout_ran, timers_redraw, votes,
                   last_eval, cont_log>>

\* An input callback spawns one of several tasks; its continuation timer, if it has
\* one, has no delay, interval or timeout.
CbAddTaskOfMany ==
    /\ ~main_panicked
    /\ phase = "input"
    /\ Len(workers) < MaxReapTasks
    /\ LET w == Len(workers) + 1
       IN /\ workers' = Append(workers, WorkerSpawned)
          /\ \/ tasks' = add_task(tasks, Task_new(w))
             \/ tasks' = add_task(tasks, then(Task_new(w),
                                              BuildTimer("then_cb", now, None, None, None)))
    /\ UNCHANGED <<timers, MAX_DAEMON_ID, phase, pending, redraw, layout_ran, timers_redraw, votes,
                   last_eval, cont_log>>

\* The input callbacks of the frame are done and have voted; the timer pass starts.
InputDone ==
    /\ ~main_panicked
    /\ phase = "input"
    /\ \E vote \in UpdateScreen :
          /\ redraw' = vote
          /\ votes' = [frame |-> vote = Redraw, timers |-> FALSE]
    /\ phase' = "timers"
    /\ pending' = DOMAIN timers
    /\ layout_ran' = FALSE
    /\ timers_redraw' = DontRedraw
    /\ UNCHANGED <<timers, tasks, MAX_DAEMON_ID, workers, last_eval, cont_log>>

\* FastHashMap is std's HashMap: the iteration over the timers yields the keys not
\* yet visited in an order the map does not promise, so any of them can come next.
iter_next(keys) == keys

\* The timer pass visits one timer: Timer::invoke, removal on Terminate, vote OR-ed in.
EvalTimer ==
    /\ ~main_panicked
    /\ phase = "timers"
    /\ \E id \in iter_next(pending), cb_ret \in TimerCallbackReturn, sub_panics \in BOOLEAN :
          LET self == timers[id]
              r == invoke(self, now, cb_ret, sub_panics)
          IN /\ main_panicked' = r.panicked
             /\ timers' = IF r.ret[2] = Terminate
                          THEN delete_timer(timers, id)
                          ELSE [timers EXCEPT ![id] = r.timer]
             /\ pending' = pending \ {id}
             /\ timers_redraw' = IF r.ret[1] = Redraw THEN Redraw ELSE timers_redraw
             /\ votes' = [votes EXCEPT !.timers = @ \/ (r.called /\ cb_ret[1] = Redraw),
                                       !.frame = @ \/ (r.called /\ cb_ret[1] = Redraw)]
             /\ last_eval' = Some([id |-> id, at |-> now, before |-> self,
                                   called |-> r.called, ret |-> r.ret, panicked |-> r.panicked])
             /\ cont_log' = IF id \in DOMAIN cont_log
                            THEN [cont_log EXCEPT
                                    ![id].first_eval = IF IsNone(@) THEN Some(cont_log[id].age) ELSE @,
                                    ![id].called = @ \/ r.called]
                            ELSE cont_log
    /\ UNCHANGED <<now, tasks, MAX_DAEMON_ID, workers, phase, redraw, layout_ran>>

\* The timer pass is over: its redraw decision is OR-ed into the vote of the frame.
TimersDone ==
    /\ ~main_panicked
    /\ phase = "timers"
    /\ pending = {}
    /\ phase' = "tasks"
    /\ last_eval' = None
    /\ redraw' = IF timers_redraw = Redraw THEN Redraw ELSE redraw
    /\ timers_redraw' = DontRedraw
    /\ votes' = [votes EXCEPT !.timers = FALSE]
    /\ UNCHANGED <<timers, tasks, MAX_DAEMON_ID, workers, pending, layout_ran, cont_log>>

\* Positions of the finished tasks in the task list.
FinishedTasks(list, ws) == {k \in 1..Len(list) : is_finished(list[k], ws)}

RECURSIVE KeepUnfinished(_, _)
KeepUnfinished(list, ws) ==
    IF list = <<>> THEN <<>>
    ELSE IF is_finished(Head(list), ws) THEN KeepUnfinished(Tail(list), ws)
    ELSE <<Head(list)>> \o KeepUnfinished(Tail(list), ws)

\* The finished tasks that carry a continuation timer, in list order.
RECURSIVE FinishedWithThen(_, _)
FinishedWithThen(list, ws) ==
    IF list = <<>> THEN <<>>
    ELSE IF is_finished(Head(list), ws) /\ IsSome(Head(list).after_completion_timer)
    THEN <<Head(list)>> \o FinishedWithThen(Tail(list), ws)
    ELSE FinishedWithThen(Tail(list), ws)

\* Each continuation timer goes into the timer map under an id from TimerId::new.
RECURSIVE TransferContinuations(_, _, _, _)
TransferContinuations(done, map, counter, log) ==
    IF done = <<>> THEN [timers |-> map, counter |-> counter, log |-> log]
    ELSE LET fresh == TimerId_new(counter)
             entry == [worker |-> Head(done).dropcheck, age |-> 0,
                       fresh |-> (fresh.id \notin DOMAIN map /\ fresh.id >= counter),
                       first_eval |-> None, called |-> FALSE]
         IN TransferContinuations(
                Tail(done),
                add_timer(map, fresh.id, Unwrap(Head(done).after_completion_timer)),
                fresh.counter,
                add_timer(log, fresh.id, entry))

\* Task reaping: the finished tasks leave the list and are dropped (joined), their
\* continuation timers are transferred; a finished task makes the frame redraw.
ReapTasks ==
    /\ ~main_panicked
    /\ phase = "tasks"
    /\ \A k \in FinishedTasks(tasks, workers) : ~Task_drop_blocks(tasks[k], workers)
    /\ tasks' = KeepUnfinished(tasks, workers)
    /\ IF \E k \in FinishedTasks(tasks, workers) : Task_drop_panics(tasks[k], workers)
       THEN /\ main_panicked' = TRUE
            /\ UNCHANGED <<timers, MAX_DAEMON_ID, cont_log, redraw, phase, votes>>
       ELSE LET r == TransferContinuations(FinishedWithThen(tasks, workers),
                                           timers, MAX_DAEMON_ID, cont_log)
            IN /\ timers' = r.timers
               /\ MAX_DAEMON_ID' = r.counter
               /\ cont_log' = r.log
               /\ redraw' = IF FinishedTasks(tasks, workers) # {} THEN Redraw ELSE redraw
               /\ votes' = [votes EXCEPT !.frame = @ \/ FinishedTasks(tasks, workers) # {}]
               /\ phase' = "layout"
               /\ UNCHANGED main_panicked
    /\ UNCHANGED <<now, workers, pending, layout_ran, timers_redraw, last_eval>>

\* The layout step runs iff the aggregate vote is Redraw; then the next frame starts.
FrameEnd ==
    /\ ~main_panicked
    /\ phase = "layout"
    /\ layout_ran' = (redraw = Redraw)
    /\ redraw' = DontRedraw
    /\ phase' = "input"
    /\ cont_log' = [id \in DOMAIN cont_log |->
                       [cont_log[id] EXCEPT !.age = IF @ < 2 THEN @ + 1 ELSE @]]
    /\ UNCHANGED <<timers, tasks, MAX_DAEMON_ID, workers, pending, last_eval,
                   timers_redraw, votes>>


\* ------------------------------------------------------------------ SpecApi: the scheduler API called directly
\* The TimerIds the application holds: TimerId has no constructor but TimerId::new.
MaxApiTimerIds == MaxTimerIds + 1

HeldIds == 0..(MAX_DAEMON_ID - 1)

ApiCall(op, id, timer, ret) ==
    Some([op |-> op, id |-> id, timer |-> timer, ret |-> ret,
          timers |-> timers, tasks |-> tasks])

\* add_timer under a fresh id or under an id the application already holds.
ApiAddTimer ==
    /\ ~main_panicked
    /\ phase = "input"
    /\ \E c \in FrozenClockConfigs :
          LET timer == BuildTimer("timer_cb", now, c[1], c[2], c[3])
          IN \/ /\ MAX_DAEMON_ID < MaxApiTimerIds
                /\ timers' = add_timer(timers, TimerId_new(MAX_DAEMON_ID).id, timer)
                /\ MAX_DAEMON_ID' = TimerId_new(MAX_DAEMON_ID).counter
                /\ api_log' = ApiCall("add_timer", TimerId_new(MAX_DAEMON_ID).id, Some(timer), None)
                /\ UNCHANGED deleted
             \/ \E id \in HeldIds :
                   /\ timers' = add_timer(timers, id, timer)
                   /\ api_log' = ApiCall("add_timer", id, Some(timer), None)
                   /\ deleted' = deleted \ {id}
                   /\ UNCHANGED MAX_DAEMON_ID
    /\ UNCHANGED <<tasks, workers, pending, phase, redraw, layout_ran, timers_redraw, votes,
                   last_eval, cont_log>>

\* delete_timer under an id the application holds, whether it is in the map or not.
ApiDeleteTimer ==
    /\ ~main_panicked
    /\ phase = "input"
    /\ \E id \in HeldIds :
          /\ timers' = delete_timer(timers, id)
          /\ api_log' = ApiCall("delete_timer", id, None, delete_timer_result(timers, id))
          /\ deleted' = deleted \cup {id}
    /\ UNCHANGED <<tasks, MAX_DAEMON_ID, workers, pending, phase, redraw, layout_ran,
                   timers_redraw, votes, last_eval, cont_log>>

\* add_task with a task that has just been spawned.
ApiAddTask ==
    /\ ~main_panicked
    /\ phase = "input"
    /\ Len(workers) < MaxTasks
    /\ workers' = Append(workers, WorkerSpawned)
    /\ tasks' = add_task(tasks, Task_new(Len(workers) + 1))
    /\ api_log' = ApiCall("add_task", 0, None, None)
    /\ UNCHANGED <<timers, MAX_DAEMON_ID, pending, phase, redraw, layout_ran, timers_redraw,
                   votes, last_eval, cont_log, deleted>>


\* ------------------------------------------------------------------ SpecTask: the Task API used directly
\* Application code spawns a task (Task::new).
TkNew ==
    /\ ~main_panicked
    /\ Len(workers) < MaxPolledTasks
    /\ workers' = Append(workers, WorkerSpawned)
    /\ tasks' = add_task(tasks, Task_new(Len(workers) + 1))
    /\ UNCHANGED <<timers, MAX_DAEMON_ID, phase, pending, redraw, layout_ran, timers_redraw, votes, last_eval, cont_log,
                   common_vars, tm_vars, task_vars, thread_vars, tag_vars, api_vars, rest_vars>>

\* The main thread calls is_finished on one of its tasks.
TkIsFinished ==
    /\ ~main_panicked
    /\ \E k \in 1..Len(tasks) :
          LET w == tasks[k].dropcheck
              result == is_finished(tasks[k], workers)
          IN /\ fin_last' = Some([worker |-> w, result |-> result,
                                  seen_before |-> w \in fin_seen,
                                  worker_state |-> workers[w].state,
                                  check_dropped |-> ~workers[w].holds_check])
             /\ fin_seen' = IF result THEN fin_seen \cup {w} ELSE fin_seen
    /\ UNCHANGED <<drop_log, common_vars, tm_vars, sched_vars, thread_vars, tag_vars, api_vars, rest_vars>>

RemoveAt(list, k) == SubSeq(list, 1, k - 1) \o SubSeq(list, k + 1, Len(list))

\* The main thread drops one of its tasks: Drop for Task joins the worker.
TkDrop ==
    /\ ~main_panicked
    /\ \E k \in 1..Len(tasks) :
          /\ ~Task_drop_blocks(tasks[k], workers)
          /\ main_panicked' = Task_drop_panics(tasks[k], workers)
          /\ drop_log' = Some([worker |-> tasks[k].dropcheck,
                               worker_state |-> workers[tasks[k].dropcheck].state,
                               panicked |-> Task_drop_panics(tasks[k], workers)])
          /\ tasks' = RemoveAt(tasks, k)
    /\ UNCHANGED <<now, timers, MAX_DAEMON_ID, workers, phase, pending, redraw, layout_ran, timers_redraw, votes,
                   last_eval, cont_log, fin_seen, fin_last, tm_vars, thread_vars, tag_vars, api_vars, rest_vars>>


\* ------------------------------------------------------------------ Thread (async.rs)
\* The inputs of the documentation example of Thread::new.
DocInputs == {5, 10, 20}

\* `fn pure_function(input: usize) -> usize { input + 1 }`
callback(input) == input + 1

Ok(v) == <<"Ok", v>>
Err(e) == <<"Err", e>>

\* Thread::new: the Mutex holds a zeroed T (cell = None), shared by `data` and the
\* clone `data_arc` that moves into the spawned closure.
Thread_new(initial_data, zero_ok) ==
    [input |-> initial_data, zero_ok |-> zero_ok,
     data |-> Some("arc"), join_handle |-> Some("handle"),
     cell |-> None, strong |-> 2, poisoned |-> FALSE, wstate |-> "spawned",
     awaited |-> FALSE, outcome |-> None, dropped |-> "no"]

\* A Drop for Thread without the test of the join handle.
Thread_drop_silent(self) == FALSE

\* Drop for Thread: `if self.join_handle.take().is_some() { panic!(..) }`
Thread_drop_panics(self) == IsSome(self.join_handle)

\* Dropping the zeroed T that the Mutex was created with is undefined behaviour
\* when all-zero bytes are not a valid T.
DropsInvalidZeroed(self) == IsNone(self.cell) /\ ~self.zero_ok

\* Thread::await once `handle.join()` has returned; self is consumed and dropped.
await(self) ==
    LET taken == [self EXCEPT !.join_handle = None, !.data = None, !.awaited = TRUE]
        result == IF self.wstate = "panicked" THEN Err("ThreadJoinError")
                  ELSE IF self.strong # 1 THEN Err("ArcUnlockError")
                  ELSE IF self.poisoned THEN Err("MutexIntoInnerError")
                  ELSE Ok(Unwrap(self.cell))
    IN [taken EXCEPT !.outcome = Some(result),
                     !.strong = self.strong - 1,
                     !.dropped = IF Thread_drop_panics(taken) THEN "panicked" ELSE "clean"]

ThNew ==
    /\ ~main_panicked /\ ~crashed
    /\ Len(threads) < MaxThreads
    /\ \E initial_data \in DocInputs, zero_ok \in BOOLEAN :
          \/ /\ threads' = Append(threads, Thread_new(initial_data, zero_ok))
             /\ UNCHANGED <<main_panicked, crashed>>
          \/ /\ ~zero_ok                     \* mem::zeroed() refuses the type: it panics
             /\ main_panicked' = TRUE
             /\ UNCHANGED <<threads, crashed>>
    /\ UNCHANGED <<now, tm_vars, sched_vars, task_vars, tag_vars, api_vars, rest_vars>>

\* The worker runs `*data_arc.lock().unwrap() = callback(initial_data)` to its end:
\* the assignment drops the zeroed T, then the closure drops data_arc.
ThWorkerRun ==
    /\ ~crashed
    /\ \E k \in DOMAIN threads :
          /\ threads[k].wstate = "spawned"
          /\ \/ /\ threads' = [threads EXCEPT ![k].cell = Some(callback(threads[k].input)),
                                              ![k].strong = @ - 1,
                                              ![k].wstate = "returned"]
                /\ UNCHANGED crashed
             \/ /\ DropsInvalidZeroed(threads[k])
                /\ crashed' = TRUE
                /\ UNCHANGED threads
    /\ UNCHANGED <<common_vars, tm_vars, sched_vars, task_vars, tag_vars, api_vars, rest_vars>>

\* The callback panics before the lock is taken; unwinding drops data_arc.
ThWorkerPanic ==
    /\ ~crashed
    /\ \E k \in DOMAIN threads :
          /\ threads[k].wstate = "spawned"
          /\ threads' = [threads EXCEPT ![k].strong = @ - 1, ![k].wstate = "panicked"]
    /\ UNCHANGED <<crashed, common_vars, tm_vars, sched_vars, task_vars, tag_vars, api_vars, rest_vars>>

\* The main thread awaits a Thread; join() blocks until the worker has ended.  On
\* the error path the last Arc is dropped, and with it the T inside the Mutex.
ThAwait ==
    /\ ~main_panicked /\ ~crashed
    /\ \E k \in DOMAIN threads :
          /\ ~threads[k].awaited /\ threads[k].dropped = "no"
          /\ threads[k].wstate # "spawned"
          /\ \/ /\ threads' = [threads EXCEPT ![k] = await(threads[k])]
                /\ main_panicked' = (await(threads[k]).dropped = "panicked")
                /\ UNCHANGED crashed
             \/ /\ await(threads[k]).outcome[1][1] = "Err"
                /\ DropsInvalidZeroed(threads[k])
                /\ threads' = [threads EXCEPT ![k].awaited = TRUE]
                /\ crashed' = TRUE
                /\ UNCHANGED main_panicked
    /\ UNCHANGED <<now, tm_vars, sched_vars, task_vars, tag_vars, api_vars, rest_vars>>

\* The main thread lets a Thread go out of scope without awaiting it.
ThDrop ==
    /\ ~main_panicked /\ ~crashed
    /\ \E k \in DOMAIN threads :
          /\ ~threads[k].awaited /\ threads[k].dropped = "no"
          /\ threads' = [threads EXCEPT
                           ![k].dropped = IF Thread_drop_panics(threads[k])
                                          THEN "panicked" ELSE "clean"]
          /\ main_panicked' = Thread_drop_panics(threads[k])
    /\ UNCHANGED <<now, crashed, tm_vars, sched_vars, task_vars, tag_vars, api_vars, rest_vars>>


\* ------------------------------------------------------------------ tag assignment (ui_state.rs)
\* dom::reset_tag_id stores this value in the tag counter.
reset_tag_id == 0

\* A new_tag_id that hands out the counter's value and leaves the counter alone.
new_tag_id_stuck(counter) == [tag |-> counter, counter |-> counter]

\* dom::new_tag_id: hand out the counter's value and advance the counter.
new_tag_id(counter) == [tag |-> counter, counter |-> counter + 1]

\* BTreeMap::insert
BTreeInsert(map, k, v) == [x \in DOMAIN map \cup {k} |-> IF x = k THEN v ELSE map[x]]

\* An event filter is <<family, event>>; one event of each family is modelled.
EventFilters ==
    {<<"Hover", "MouseUp">>, <<"Focus", "TextInput">>,
     <<"Not", "Hover">>, <<"Window", "MouseUp">>}

as_hover_event_filter(ef) == IF ef[1] = "Hover" THEN Some(ef[2]) ELSE None
as_focus_event_filter(ef) == IF ef[1] = "Focus" THEN Some(ef[2]) ELSE None
as_not_event_filter(ef) == IF ef[1] = "Not" THEN Some(ef[2]) ELSE None
as_window_event_filter(ef) == IF ef[1] = "Window" THEN Some(ef[2]) ELSE None

\* `event_filter.$filter_func()`: the filter function a use of the macro names.
filter_func(name, ef) ==
    CASE name = "as_hover_event_filter" -> as_hover_event_filter(ef)
      [] name = "as_focus_event_filter" -> as_focus_event_filter(ef)
      [] name = "as_not_event_filter" -> as_not_event_filter(ef)
      [] name = "as_window_event_filter" -> as_window_event_filter(ef)

TabIndex == {"Auto", "NoKeyboardFocus"}

\* The callback maps a node can carry: every event filter of the set is subscribed.
CallbackMaps(handle) == {[ef \in fs |-> handle] : fs \in SUBSET EventFilters}

\* The number of features of a node that tag assignment looks at.
Features(node) ==
    Cardinality(DOMAIN node.callbacks) + Cardinality(DOMAIN node.default_callback_ids)
    + (IF node.is_draggable THEN 1 ELSE 0) + Len(node.tab_index)
    + Cardinality(node.dynamic_css_overrides)

\* All node data of the input trees: divs without css classes.
NodeData ==
    [node_type : {"Div"},
     classes : {{}},
     callbacks : CallbackMaps("cb"),
     default_callback_ids : CallbackMaps("default_cb"),
     is_draggable : BOOLEAN,
     tab_index : Option(TabIndex),
     dynamic_css_overrides : SUBSET {"my_id"}]

\* The node data with exactly k features.
NodesWith(k) == {node \in NodeData : Features(node) = k}

\* The arenas of n nodes with at most f features in total: node k of the sequence
\* has NodeId k - 1, and linear_iter visits the nodes in this order.
RECURSIVE DomsWith(_, _)
DomsWith(n, f) ==
    IF n = 0 THEN {<<>>}
    ELSE UNION {{Append(dom, node) : dom \in DomsWith(n - 1, f - k), node \in NodesWith(k)} :
                   k \in 0..f}

\* The input trees: at least the root node, at most maxn nodes.
Doms(maxn, maxf) == UNION {DomsWith(n, maxf) : n \in 1..maxn}

\* Button::dom (azul-widgets button.rs): `Dom::div().with_class("__azul-native-button")
\* .with_tab_index(TabIndex::Auto)`, and as its one child a label for a text content or
\* an image for an image content.  node_layout holds the parent of each node.
ButtonContent == {"Text", "Image"}
Button_dom(content) ==
    LET div == [node_type |-> "Div", classes |-> {}, callbacks |-> EmptyMap,
                default_callback_ids |-> EmptyMap, is_draggable |-> FALSE,
                tab_index |-> None, dynamic_css_overrides |-> {}]
        button_root == [div EXCEPT !.classes = {"__azul-native-button"},
                                   !.tab_index = Some("Auto")]
        child == [div EXCEPT !.node_type = IF content = "Text" THEN "Label" ELSE "Image"]
    IN [node_data |-> <<button_root, child>>,
        node_layout |-> <<[parent |-> None], [parent |-> Some(0)]>>]

\* The trees that contain a Button: nodes before it, the button, to whose root the
\* application may attach callbacks, and nodes after it; at most maxn other nodes and
\* maxf features in all.
ButtonDoms(maxn, maxf) ==
    UNION {{pre \o <<[button.node_data[1] EXCEPT !.callbacks = callbacks], button.node_data[2]>>
                \o post :
               pre \in DomsWith(n[1], f[1]),
               post \in DomsWith(n[2], f[2]),
               button \in {Button_dom(content) : content \in ButtonContent},
               callbacks \in {cbs \in CallbackMaps("cb") :
                                 Cardinality(DOMAIN cbs) <= maxf - f[1] - f[2]}} :
              n \in {m \in (0..maxn) \X (0..maxn) : m[1] + m[2] <= maxn},
              f \in {g \in (0..maxf) \X (0..maxf) : g[1] + g[2] <= maxf}}

\* The collect() of filter_and_insert_callbacks: the callbacks of the data source
\* whose event filter belongs to the family, keyed by the family's own filter.
node_hover_callbacks(data_source, name) ==
    LET matching == {ef \in DOMAIN data_source : IsSome(filter_func(name, ef))}
    IN [evt \in {Unwrap(filter_func(name, ef)) : ef \in matching} |->
           data_source[CHOOSE ef \in matching : Unwrap(filter_func(name, ef)) = evt]]

\* A tag lookup that takes a new tag whether the node has one or not.
always_new_tag_id(node_tag_id, counter) == new_tag_id(counter)

\* `node_tag_id.unwrap_or_else(|| new_tag_id())`
unwrap_or_new_tag_id(node_tag_id, counter) ==
    IF IsSome(node_tag_id)
    THEN [tag |-> Unwrap(node_tag_id), counter |-> counter]
    ELSE new_tag_id(counter)

\* A variant without node_tag_id that gives the node a tag all the same.
filter_and_insert_callbacks_tagging(st, node_id, data_source, name, final_callback_list) ==
    LET cbs == node_hover_callbacks(data_source, name)
        t == unwrap_or_new_tag_id(st.node_tag_id, st.TAG_ID)
    IN IF DOMAIN cbs # {}
       THEN [st EXCEPT ![final_callback_list] = BTreeInsert(@, node_id, cbs),
                       !.node_tag_id = Some(t.tag),
                       !.TAG_ID = t.counter]
       ELSE st

\* filter_and_insert_callbacks!, the variant without a node tag.  `st` holds the
\* local maps of ui_state_from_dom, the tag counter and the current node_tag_id.
filter_and_insert_callbacks(st, node_id, data_source, name, final_callback_list) ==
    LET cbs == node_hover_callbacks(data_source, name)
    IN IF DOMAIN cbs # {}
       THEN [st EXCEPT ![final_callback_list] = BTreeInsert(@, node_id, cbs)]
       ELSE st

\* filter_and_insert_callbacks!, the variant that makes sure the node has a tag.
filter_and_insert_callbacks_tag(st, node_id, data_source, name, final_callback_list) ==
    LET cbs == node_hover_callbacks(data_source, name)
        t == unwrap_or_new_tag_id(st.node_tag_id, st.TAG_ID)
    IN IF DOMAIN cbs # {}
       THEN [st EXCEPT ![final_callback_list] = BTreeInsert(@, node_id, cbs),
                       !.node_tag_id = Some(t.tag),
                       !.TAG_ID = t.counter]
       ELSE st

\* A link step that fills only the map from tags to nodes.
insert_tag_only(st, node_id, tag_id) ==
    [st EXCEPT !.tag_ids_to_node_ids = BTreeInsert(@, tag_id, node_id)]

\* `tag_ids_to_node_ids.insert(tag_id, node_id); node_ids_to_tag_ids.insert(node_id, tag_id)`
insert_tag_and_node(st, node_id, tag_id) ==
    [st EXCEPT !.tag_ids_to_node_ids = BTreeInsert(@, tag_id, node_id),
               !.node_ids_to_tag_ids = BTreeInsert(@, node_id, tag_id)]

\* The four filter_and_insert_callbacks! of the node's callbacks.
tag_callbacks(st, node_id, node) ==
    IF DOMAIN node.callbacks = {} THEN st
    ELSE filter_and_insert_callbacks(
           filter_and_insert_callbacks_tag(
             filter_and_insert_callbacks_tag(
               filter_and_insert_callbacks_tag(st, node_id, node.callbacks,
                   "as_hover_event_filter", "hover_callbacks"),
               node_id, node.callbacks, "as_focus_event_filter", "focus_callbacks"),
             node_id, node.callbacks, "as_not_event_filter", "not_callbacks"),
           node_id, node.callbacks, "as_window_event_filter", "window_callbacks")

\* The four filter_and_insert_callbacks! of the node's default callbacks.
tag_default_callbacks(st, node_id, node) ==
    IF DOMAIN node.default_callback_ids = {} THEN st
    ELSE filter_and_insert_callbacks(
           filter_and_insert_callbacks_tag(
             filter_and_insert_callbacks_tag(
               filter_and_insert_callbacks_tag(st, node_id, node.default_callback_ids,
                   "as_hover_event_filter", "hover_default_callbacks"),
               node_id, node.default_callback_ids, "as_focus_event_filter",
               "focus_default_callbacks"),
             node_id, node.default_callback_ids, "as_not_event_filter", "not_default_callbacks"),
           node_id, node.default_callback_ids, "as_window_event_filter",
           "window_default_callbacks")

\* `if node.get_is_draggable() { .. }`
tag_draggable(st, node_id, node) ==
    IF node.is_draggable
    THEN LET t == unwrap_or_new_tag_id(st.node_tag_id, st.TAG_ID)
         IN [st EXCEPT !.draggable_tags = BTreeInsert(@, t.tag, node_id),
                       !.node_tag_id = Some(t.tag),
                       !.TAG_ID = t.counter]
    ELSE st

\* The test is made on the maps of the whole tree as filled so far.
should_insert_tabindex_auto(st) ==
    DOMAIN st.focus_callbacks # {} \/ DOMAIN st.focus_default_callbacks # {}

\* A tab index that comes from the focus callbacks only.
node_tab_index_from_focus_only(st, node) ==
    IF should_insert_tabindex_auto(st) THEN Some("Auto") ELSE None

\* `node.get_tab_index().or(if should_insert_tabindex_auto { Some(Auto) } else { None })`
node_tab_index(st, node) ==
    IF IsSome(node.tab_index) THEN node.tab_index
    ELSE IF should_insert_tabindex_auto(st) THEN Some("Auto") ELSE None

\* `if let Some(tab_index) = node_tab_index { .. }`
tag_tab_index(st, node_id, node) ==
    IF IsSome(node_tab_index(st, node))
    THEN LET t == unwrap_or_new_tag_id(st.node_tag_id, st.TAG_ID)
         IN [st EXCEPT !.tab_index_tags =
                           BTreeInsert(@, t.tag, <<node_id, Unwrap(node_tab_index(st, node))>>),
                       !.node_tag_id = Some(t.tag),
                       !.TAG_ID = t.counter]
    ELSE st

\* A link step that gives every node a tag.
tag_link_every_node(st, node_id) ==
    insert_tag_and_node(st, node_id, unwrap_or_new_tag_id(st.node_tag_id, st.TAG_ID).tag)

\* `if let Some(tag_id) = node_tag_id { .. }`
tag_link(st, node_id) ==
    IF IsSome(st.node_tag_id)
    THEN insert_tag_and_node(st, node_id, Unwrap(st.node_tag_id))
    ELSE st

\* `if !node.get_dynamic_css_overrides().is_empty() { .. }`
tag_css_overrides(st, node_id, node) ==
    IF node.dynamic_css_overrides # {}
    THEN [st EXCEPT !.dynamic_css_overrides =
                        BTreeInsert(@, node_id, node.dynamic_css_overrides)]
    ELSE st

\* The body of the loop over arena.linear_iter() for one node.
tag_node(st, node_id, node) ==
    tag_css_overrides(
      tag_link(
        tag_tab_index(
          tag_draggable(
            tag_default_callbacks(
              tag_callbacks([st EXCEPT !.node_tag_id = None], node_id, node),
              node_id, node),
            node_id, node),
          node_id, node),
        node_id),
      node_id, node)

\* The loop of ui_state_from_dom over the nodes k..Len(arena) of the arena.
RECURSIVE tag_nodes(_, _, _)
tag_nodes(st, arena, k) ==
    IF k > Len(arena) THEN st
    ELSE tag_nodes(tag_node(st, k - 1, arena[k]), arena, k + 1)

\* A DomId::new that does not advance the DOM counter.
DomId_new_reused(counter, parent) ==
    [dom_id |-> [id |-> counter, parent |-> parent], counter |-> counter]

\* DomId::new: a fresh id from the DOM counter, with the parent backref.
DomId_new(counter, parent) == [dom_id |-> [id |-> counter, parent |-> parent], counter |-> counter + 1]

\* Local maps of a tag assignment whose counter starts one past the reset value.
LocalMaps_counter_not_reset ==
    [tab_index_tags |-> EmptyMap, draggable_tags |-> EmptyMap,
     tag_ids_to_node_ids |-> EmptyMap, node_ids_to_tag_ids |-> EmptyMap,
     dynamic_css_overrides |-> EmptyMap,
     hover_callbacks |-> EmptyMap, hover_default_callbacks |-> EmptyMap,
     focus_callbacks |-> EmptyMap, focus_default_callbacks |-> EmptyMap,
     not_callbacks |-> EmptyMap, not_default_callbacks |-> EmptyMap,
     window_callbacks |-> EmptyMap, window_default_callbacks |-> EmptyMap,
     node_tag_id |-> None, TAG_ID |-> reset_tag_id + 1]

\* The local maps of ui_state_from_dom after `dom::reset_tag_id()`.
LocalMaps ==
    [tab_index_tags |-> EmptyMap, draggable_tags |-> EmptyMap,
     tag_ids_to_node_ids |-> EmptyMap, node_ids_to_tag_ids |-> EmptyMap,
     dynamic_css_overrides |-> EmptyMap,
     hover_callbacks |-> EmptyMap, hover_default_callbacks |-> EmptyMap,
     focus_callbacks |-> EmptyMap, focus_default_callbacks |-> EmptyMap,
     not_callbacks |-> EmptyMap, not_default_callbacks |-> EmptyMap,
     window_callbacks |-> EmptyMap, window_default_callbacks |-> EmptyMap,
     node_tag_id |-> None, TAG_ID |-> reset_tag_id]

\* ui_state_from_dom: the UiState, and the counters as the call leaves them.
ui_state_from_dom(dom, parent_dom_node_id, dom_counter) ==
    LET st == tag_nodes(LocalMaps, dom, 1)
        id == DomId_new(dom_counter, parent_dom_node_id)
    IN [ui_state |->
           [dom_id |-> id.dom_id,
            dom |-> dom,
            dynamic_css_overrides |-> st.dynamic_css_overrides,
            tag_ids_to_hover_active_states |-> EmptyMap,
            tab_index_tags |-> st.tab_index_tags,
            draggable_tags |-> st.draggable_tags,
            node_ids_to_tag_ids |-> st.node_ids_to_tag_ids,
            tag_ids_to_node_ids |-> st.tag_ids_to_node_ids,
            hover_callbacks |-> st.hover_callbacks,
            hover_default_callbacks |-> st.hover_default_callbacks,
            focus_callbacks |-> st.focus_callbacks,
            focus_default_callbacks |-> st.focus_default_callbacks,
            not_callbacks |-> st.not_callbacks,
            not_default_callbacks |-> st.not_default_callbacks,
            window_callbacks |-> st.window_callbacks,
            window_default_callbacks |-> st.window_default_callbacks],
        TAG_ID |-> st.TAG_ID,
        DOM_ID |-> id.counter]

\* The parent backrefs of the input trees: a root tree, or a tree nested in
\* node 0 of the tree with DomId 0.
ParentDomNodeIds == {None, Some(<<0, 0>>)}

\* The frame's tag assignment: the tree that the layout function returned is
\* turned into the frame's UiState.
TagAssignment(doms) ==
    /\ ~main_panicked
    /\ ui_state = None
    /\ \E dom \in doms, parent_dom_node_id \in ParentDomNodeIds :
          LET r == ui_state_from_dom(dom, parent_dom_node_id, DOM_ID)
          IN /\ ui_state' = Some(r.ui_state)
             /\ TAG_ID' = r.TAG_ID
             /\ DOM_ID' = r.DOM_ID
    /\ UNCHANGED <<ui_state_prev, hover_log, common_vars, tm_vars, sched_vars, task_vars,
                   thread_vars, api_vars, rest_vars>>

\* The tag assignment of the next frame, for which the layout function returned an
\* equal tree under the same parent.
TagAssignmentAgain ==
    /\ ~main_panicked
    /\ IsSome(ui_state)
    /\ ui_state_prev = None
    /\ LET r == ui_state_from_dom(Unwrap(ui_state).dom, Unwrap(ui_state).dom_id.parent, DOM_ID)
       IN /\ ui_state_prev' = ui_state
          /\ ui_state' = Some(r.ui_state)
          /\ TAG_ID' = r.TAG_ID
          /\ DOM_ID' = r.DOM_ID
    /\ UNCHANGED <<hover_log, common_vars, tm_vars, sched_vars, task_vars, thread_vars,
                   api_vars, rest_vars>>

\* ------------------------------------------------------------------ the hover pass (ui_state.rs, ui_description.rs)
\* HoverGroup: one group per value of ActiveHover is modelled.
HoverGroups ==
    {[affects_layout |-> FALSE, active_or_hover |-> "Hover"],
     [affects_layout |-> TRUE, active_or_hover |-> "Active"]}

\* The selected_hover_nodes that selector matching can return for a tree of n nodes.
SelectedHoverNodes(n) ==
    UNION {[ids -> HoverGroups] : ids \in SUBSET (0..(n - 1))}

\* A hover tag that is always taken from new_tag_id.
hover_tag_always_new(node_ids_to_tag_ids, hover_node_id, counter) == new_tag_id(counter)

\* `match ui_state.node_ids_to_tag_ids.get(hover_node_id) { Some(tag_id) => *tag_id,
\*                                                         None => new_tag_id() }`
hover_tag(node_ids_to_tag_ids, hover_node_id, counter) ==
    IF hover_node_id \in DOMAIN node_ids_to_tag_ids
    THEN [tag |-> node_ids_to_tag_ids[hover_node_id], counter |-> counter]
    ELSE new_tag_id(counter)

\* A loop body that moves the hover node out of the draggable tags.
create_tags_for_hover_node_undragging(acc, hover_node_id, hover_group) ==
    LET t == hover_tag(acc.ui_state.node_ids_to_tag_ids, hover_node_id, acc.TAG_ID)
    IN [ui_state |->
           [acc.ui_state EXCEPT
              !.node_ids_to_tag_ids = BTreeInsert(@, hover_node_id, t.tag),
              !.tag_ids_to_node_ids = BTreeInsert(@, t.tag, hover_node_id),
              !.draggable_tags = [x \in DOMAIN @ \ {t.tag} |-> @[x]],
              !.tag_ids_to_hover_active_states =
                  BTreeInsert(@, t.tag, <<hover_node_id, hover_group>>)],
        TAG_ID |-> t.counter]

\* The body of the loop of ui_state_create_tags_for_hover_nodes for one entry.
create_tags_for_hover_node(acc, hover_node_id, hover_group) ==
    LET t == hover_tag(acc.ui_state.node_ids_to_tag_ids, hover_node_id, acc.TAG_ID)
    IN [ui_state |->
           [acc.ui_state EXCEPT
              !.node_ids_to_tag_ids = BTreeInsert(@, hover_node_id, t.tag),
              !.tag_ids_to_node_ids = BTreeInsert(@, t.tag, hover_node_id),
              !.tag_ids_to_hover_active_states =
                  BTreeInsert(@, t.tag, <<hover_node_id, hover_group>>)],
        TAG_ID |-> t.counter]

\* ui_state_create_tags_for_hover_nodes: the loop over the entries of the BTreeMap
\* whose keys are `todo`, in ascending order of the NodeId.
RECURSIVE ui_state_create_tags_for_hover_nodes(_, _, _)
ui_state_create_tags_for_hover_nodes(acc, hover_nodes, todo) ==
    IF todo = {} THEN acc
    ELSE LET hover_node_id == CHOOSE n \in todo : \A m \in todo : n <= m
         IN ui_state_create_tags_for_hover_nodes(
                create_tags_for_hover_node(acc, hover_node_id, hover_nodes[hover_node_id]),
                hover_nodes, todo \ {hover_node_id})

\* The record of a hover pass: its input, the UiState and the tag counter before it.
HoverCall(hover_nodes, run) ==
    Some([hover_nodes |-> hover_nodes, run |-> run,
          ui_state |-> Unwrap(ui_state), TAG_ID |-> TAG_ID])

\* UiDescription::match_css_to_dom: selector matching selects the hover nodes, then
\* the hover pass runs on the UiState.
MatchCssToDom ==
    /\ ~main_panicked
    /\ IsSome(ui_state)
    /\ hover_log = None
    /\ \E hover_nodes \in SelectedHoverNodes(Len(Unwrap(ui_state).dom)) :
          LET r == ui_state_create_tags_for_hover_nodes(
                       [ui_state |-> Unwrap(ui_state), TAG_ID |-> TAG_ID],
                       hover_nodes, DOMAIN hover_nodes)
          IN /\ ui_state' = Some(r.ui_state)
             /\ TAG_ID' = r.TAG_ID
             /\ hover_log' = HoverCall(hover_nodes, 1)
    /\ UNCHANGED <<DOM_ID, ui_state_prev, common_vars, tm_vars, sched_vars, task_vars,
                   thread_vars, api_vars, rest_vars>>

\* The hover pass applied a second time to the same UiState with the same hover set.
MatchCssToDomAgain ==
    /\ ~main_panicked
    /\ IsSome(ui_state)
    /\ IsSome(hover_log)
    /\ Unwrap(hover_log).run = 1
    /\ LET hover_nodes == Unwrap(hover_log).hover_nodes
           r == ui_state_create_tags_for_hover_nodes(
                    [ui_state |-> Unwrap(ui_state), TAG_ID |-> TAG_ID],
                    hover_nodes, DOMAIN hover_nodes)
       IN /\ ui_state' = Some(r.ui_state)
          /\ TAG_ID' = r.TAG_ID
          /\ hover_log' = HoverCall(hover_nodes, 2)
    /\ UNCHANGED <<DOM_ID, ui_state_prev, common_vars, tm_vars, sched_vars, task_vars,
                   thread_vars, api_vars, rest_vars>>

\* ------------------------------------------------------------------ two trees in one frame (ui_state.rs, ui_description.rs)
\* The trees of a window with an iframe: the window's own tree and the iframe's.
Trees == {"A", "B"}

\* The input trees of the two-tree frame: up to maxn divs, each draggable or plain.
TreeDoms(maxn) ==
    LET div == [node_type |-> "Div", classes |-> {}, callbacks |-> EmptyMap,
                default_callback_ids |-> EmptyMap, is_draggable |-> FALSE,
                tab_index |-> None, dynamic_css_overrides |-> {}]
    IN UNION {{[k \in 1..n |-> IF k \in draggable THEN [div EXCEPT !.is_draggable = TRUE]
                               ELSE div] : draggable \in SUBSET (1..n)} : n \in 1..maxn}

\* ui_state_from_dom on the tree of one of the two: the tag counter is the one
\* process-wide counter, which the call resets and leaves at the number of its tags.
TreeTagAssignment(doms) ==
    /\ ~main_panicked
    /\ \E tree \in Trees, dom \in doms :
          /\ IsNone(ui_states[tree].ui_state)
          /\ LET r == ui_state_from_dom(dom, None, DOM_ID)
             IN /\ ui_states' = [ui_states EXCEPT ![tree] =
                                    [assigned |-> Some(r.ui_state),
                                     ui_state |-> Some(r.ui_state), hovered |-> FALSE]]
                /\ TAG_ID' = r.TAG_ID
                /\ DOM_ID' = r.DOM_ID
    /\ UNCHANGED <<ui_state, ui_state_prev, hover_log, style_log, common_vars, tm_vars,
                   sched_vars, task_vars, thread_vars, api_vars, layout_vars, ptr_vars,
                   id_vars, dim_vars>>

\* match_css_to_dom on the UiState of one of the two trees, with hover nodes of the
\* group Hover: the hover pass mints its tags from the process-wide counter as the
\* last tag assignment or hover pass left it.
TreeMatchCssToDom ==
    /\ ~main_panicked
    /\ \E tree \in Trees :
          /\ IsSome(ui_states[tree].ui_state)
          /\ ~ui_states[tree].hovered
          /\ \E hover_nodes \in
                   {h \in SelectedHoverNodes(Len(Unwrap(ui_states[tree].ui_state).dom)) :
                       \A id \in DOMAIN h : h[id].active_or_hover = "Hover"} :
                LET r == ui_state_create_tags_for_hover_nodes(
                             [ui_state |-> Unwrap(ui_states[tree].ui_state), TAG_ID |-> TAG_ID],
                             hover_nodes, DOMAIN hover_nodes)
                IN /\ ui_states' = [ui_states EXCEPT ![tree].ui_state = Some(r.ui_state),
                                                     ![tree].hovered = TRUE]
                   /\ TAG_ID' = r.TAG_ID
    /\ UNCHANGED <<DOM_ID, ui_state, ui_state_prev, hover_log, style_log, common_vars, tm_vars,
                   sched_vars, task_vars, thread_vars, api_vars, layout_vars, ptr_vars,
                   id_vars, dim_vars>>

\* ------------------------------------------------------------------ StackCheckedPointer (stack_checked_pointer.rs)
\* TypeId::of::<U>() and size_of::<U>(): two types of each size.
TypeIds == 0..MaxTypeId
size_of(U) == U \div 2 + 1

\* A live value [addr, ty]: references are never null, and no value wraps around the
\* end of the address space.
Values == {v \in [addr : 1..UsizeMax, ty : TypeIds] : v.addr + size_of(v.ty) <= UsizeMax}
\* The byte range of the child lies inside the byte range of the parent.
Contained(stack, pointer) ==
    /\ pointer.addr >= stack.addr
    /\ pointer.addr + size_of(pointer.ty) <= stack.addr + size_of(stack.ty)
\* The child is stored apart from the parent (separately allocated heap storage,
\* another local).
Apart(stack, pointer) ==
    \/ pointer.addr + size_of(pointer.ty) <= stack.addr
    \/ stack.addr + size_of(stack.ty) <= pointer.addr

\* The offsets of the fields a and b of `struct Invalid { a: u64, b: u64 }`, scaled to
\* one byte per field.  The struct has the default representation, which fixes no
\* order of the fields: declared order or the reverse.
InvalidLayouts == {[a |-> 0, b |-> 1], [a |-> 1, b |-> 0]}

\* An is_subtype_of that compares the start addresses only.
is_subtype_of_start_only(stack, pointer, invalid, overflow_checks) ==
    [value |-> pointer.addr >= stack.addr, panics |-> FALSE]

\* is_subtype_of.  `stack_grows_down` compares the addresses of the two fields of one
\* local struct.  The comparisons are usize arithmetic: an overflowing + or - panics
\* with overflow checks (debug builds) and wraps without (release builds); && does
\* not evaluate its right side when the left side is false.
is_subtype_of(stack, pointer, invalid, overflow_checks) ==
    LET stack_grows_down == invalid.b > invalid.a
        st == pointer.addr
        t == stack.addr
        st_end_overflows == st + size_of(pointer.ty) > UsizeMax
        t_end_overflows == t + size_of(stack.ty) > UsizeMax
        st_end == (st + size_of(pointer.ty)) % (UsizeMax + 1)
        t_end == (t + size_of(stack.ty)) % (UsizeMax + 1)
        st_low_overflows == st < size_of(pointer.ty)
        t_low_overflows == t < size_of(stack.ty)
        st_low == (st - size_of(pointer.ty) + UsizeMax + 1) % (UsizeMax + 1)
        t_low == (t - size_of(stack.ty) + UsizeMax + 1) % (UsizeMax + 1)
    IN IF stack_grows_down
       THEN IF st >= t
            THEN [value |-> st_end <= t_end,
                  panics |-> overflow_checks /\ (st_end_overflows \/ t_end_overflows)]
            ELSE [value |-> FALSE, panics |-> FALSE]
       ELSE IF st <= t
            THEN [value |-> st_low >= t_low,
                  panics |-> overflow_checks /\ (st_low_overflows \/ t_low_overflows)]
            ELSE [value |-> FALSE, panics |-> FALSE]

\* StackCheckedPointer::new::<T, U>(stack, pointer): Some of the pointer with the
\* address of `pointer` and the TypeId of U if is_subtype_of, else None.
StackCheckedPointer_new(stack, pointer, invalid, overflow_checks) ==
    LET r == is_subtype_of(stack, pointer, invalid, overflow_checks)
    IN IF r.panics THEN [panics |-> TRUE, value |-> None]
       ELSE IF r.value
            THEN [panics |-> FALSE,
                  value |-> Some([internal |-> pointer.addr, pointer_type |-> pointer.ty])]
            ELSE [panics |-> FALSE, value |-> None]

\* StackCheckedPointer::new_entire_struct(stack) = new(stack, stack).unwrap().
new_entire_struct(stack, invalid, overflow_checks) ==
    LET r == StackCheckedPointer_new(stack, stack, invalid, overflow_checks)
    IN IF IsNone(r.value) THEN [panics |-> TRUE, value |-> None] ELSE r

\* A cast that never looks at the recorded type.
cast_unchecked(self, U, debug_assertions) ==
    [panics |-> FALSE, reference |-> Some([addr |-> self.internal, ty |-> U])]

\* StackCheckedPointer::cast::<U>(&self): with debug_assertions a TypeId other than the
\* recorded one panics; otherwise `&mut *(self.internal as *mut U)`.
cast(self, U, debug_assertions) ==
    IF debug_assertions /\ U # self.pointer_type
    THEN [panics |-> TRUE, reference |-> None]
    ELSE [panics |-> FALSE, reference |-> Some([addr |-> self.internal, ty |-> U])]

\* impl Clone: internal, marker and pointer_type are copied.
clone(self) == [internal |-> self.internal, pointer_type |-> self.pointer_type]

\* The application builds a pointer to a value that is part of `stack` or stored apart
\* from it, with new, or to the whole of `stack` with new_entire_struct.  One pointer is
\* built in a run.
PtrNew ==
    /\ ~main_panicked
    /\ ptr_log = None
    /\ \E stack \in Values, pointer \in Values, invalid \in InvalidLayouts,
          overflow_checks \in BOOLEAN, entire \in BOOLEAN :
          /\ Contained(stack, pointer) \/ Apart(stack, pointer)
          /\ entire => pointer = stack
          /\ LET r == IF entire THEN new_entire_struct(stack, invalid, overflow_checks)
                      ELSE StackCheckedPointer_new(stack, pointer, invalid, overflow_checks)
             IN /\ ptr' = r.value
                /\ main_panicked' = r.panics
                /\ ptr_log' = Some([stack |-> stack, pointer |-> pointer, invalid |-> invalid,
                                    overflow_checks |-> overflow_checks, entire |-> entire,
                                    value |-> r.value, panics |-> r.panics])
    /\ ptr_copy' = None
    /\ cast_log' = None
    /\ UNCHANGED <<now, tm_vars, sched_vars, task_vars, thread_vars, tag_vars, api_vars,
                   layout_vars, id_vars, dim_vars, more_vars>>

\* The pointer is cloned (it is Copy as well).
PtrClone ==
    /\ ~main_panicked
    /\ IsSome(ptr)
    /\ ptr_copy' = Some(clone(Unwrap(ptr)))
    /\ UNCHANGED <<ptr, ptr_log, cast_log, common_vars, tm_vars, sched_vars, task_vars,
                   thread_vars, tag_vars, api_vars, layout_vars, id_vars, dim_vars, more_vars>>

\* The pointer, or its clone, is cast to a type the caller names.
PtrCast ==
    /\ ~main_panicked
    /\ \E self \in {p \in {ptr, ptr_copy} : IsSome(p)}, U \in TypeIds, debug_assertions \in BOOLEAN :
          LET r == cast(Unwrap(self), U, debug_assertions)
          IN /\ main_panicked' = r.panics
             /\ cast_log' = Some([self |-> Unwrap(self), of_clone |-> self = ptr_copy,
                                  U |-> U, debug_assertions |-> debug_assertions,
                                  reference |-> r.reference, panics |-> r.panics])
    /\ UNCHANGED <<ptr, ptr_copy, ptr_log, now, tm_vars, sched_vars, task_vars,
                   thread_vars, tag_vars, api_vars, layout_vars, id_vars, dim_vars, more_vars>>

\* ------------------------------------------------------------------ TimerId::new called from several threads (async.rs 25-40)
IdThreads == 1..MaxIdThreads

\* A thread calls TimerId::new(): one atomic fetch_add on MAX_DAEMON_ID.  The run goes
\* on until the counter has passed its largest value once.
TimerIdNew(thread) ==
    /\ ~main_panicked
    /\ Len(issued) < UsizeMax + 2
    /\ LET r == TimerId_new(MAX_DAEMON_ID)
       IN /\ MAX_DAEMON_ID' = r.counter
          /\ issued' = Append(issued, [thread |-> thread, id |-> r.id,
                                       counter |-> MAX_DAEMON_ID])
    /\ UNCHANGED <<timers, tasks, workers, phase, pending, redraw, layout_ran, timers_redraw,
                   votes, last_eval, cont_log, common_vars, tm_vars, task_vars, thread_vars,
                   tag_vars, api_vars, layout_vars, ptr_vars, dim_vars, more_vars>>

\* ------------------------------------------------------------------ Dimension (azul-layout style.rs)
\* An f32 is the exact fraction <<n, d>> in lowest terms, d > 0; the rounding of f32
\* arithmetic is not modelled.
RECURSIVE GCD(_, _)
GCD(a, b) == IF b = 0 THEN a ELSE GCD(b, a % b)
Normalize(n, d) ==
    LET g == GCD(IF n < 0 THEN -n ELSE n, IF d < 0 THEN -d ELSE d)
        sign == IF d < 0 THEN -1 ELSE 1
    IN <<sign * (n \div g), sign * (d \div g)>>
f32_mul(a, b) == Normalize(a[1] * b[1], a[2] * b[2])
f32_div(a, b) == Normalize(a[1] * b[2], a[2] * b[1])
f32_inputs == {Normalize(n, d) : n \in (-MaxDimNum)..MaxDimNum, d \in 1..2}

\* enum Number { Defined(f32), Undefined } and enum Dimension.
Number_Undefined == <<"Undefined">>
Defined(x) == <<"Defined", x>>
Numbers == {Number_Undefined} \cup {Defined(x) : x \in f32_inputs}
Dimensions ==
    {<<"Undefined">>, <<"Auto">>} \cup {<<"Pixels", x>> : x \in f32_inputs}
                                  \cup {<<"Percent", x>> : x \in f32_inputs}

\* `impl Mul<f32> for Number`: Defined(val) * other = Defined(val * other), and
\* Undefined * other = Undefined.
Number_mul(self, other) ==
    IF self[1] = "Defined" THEN Defined(f32_mul(self[2], other)) ELSE Number_Undefined

\* A resolve that takes a percentage for a length.
resolve_percent_as_pixels(self, parent_width) ==
    IF self[1] \in {"Pixels", "Percent"} THEN Defined(self[2]) ELSE Number_Undefined

\* Dimension::resolve: Pixels(pixels) => Defined(pixels), Percent(percent) =>
\* parent_width * (percent / 100.0), _ => Undefined.
resolve(self, parent_width) ==
    CASE self[1] = "Pixels" -> Defined(self[2])
      [] self[1] = "Percent" -> Number_mul(parent_width, f32_div(self[2], <<100, 1>>))
      [] OTHER -> Number_Undefined

\* The layout engine resolves a dimension of a node against the size of the parent.
DimResolve ==
    /\ ~main_panicked
    /\ \E self \in Dimensions, parent_width \in Numbers :
          resolve_log' = Some([self |-> self, parent_width |-> parent_width,
                               result |-> resolve(self, parent_width)])
    /\ UNCHANGED <<common_vars, tm_vars, sched_vars, task_vars, thread_vars, tag_vars,
                   api_vars, layout_vars, ptr_vars, id_vars, more_vars>>

\* ------------------------------------------------------------------ Style (azul-layout style.rs)
FlexDirection == {"Row", "Column", "RowReverse", "ColumnReverse"}
StyleDims == {<<"Auto">>} \cup {<<"Pixels", <<k, 1>>>> : k \in 1..(MaxStyleDims - 1)}
\* The fields of a Style that the selectors read.
Styles ==
    [size : [width : StyleDims, height : StyleDims],
     min_size : [width : StyleDims, height : StyleDims],
     max_size : [width : StyleDims, height : StyleDims],
     margin : [left : StyleDims, right : StyleDims, top : StyleDims, bottom : StyleDims]]
Selectors ==
    {"min_main_size", "max_main_size", "main_margin_start", "main_margin_end", "cross_size",
     "min_cross_size", "max_cross_size", "cross_margin_start", "cross_margin_end"}

\* Selectors that all read the width side for rows and the height side for columns.
Style_select_width_side_for_rows(selector, self, direction) ==
    LET row == direction \in {"Row", "RowReverse"}
    IN CASE selector \in {"min_main_size", "min_cross_size"} ->
                IF row THEN self.min_size.width ELSE self.min_size.height
         [] selector \in {"max_main_size", "max_cross_size"} ->
                IF row THEN self.max_size.width ELSE self.max_size.height
         [] selector \in {"main_margin_start", "cross_margin_start"} ->
                IF row THEN self.margin.left ELSE self.margin.top
         [] selector \in {"main_margin_end", "cross_margin_end"} ->
                IF row THEN self.margin.right ELSE self.margin.bottom
         [] selector = "cross_size" -> IF row THEN self.size.width ELSE self.size.height

\* The methods of `impl Style` named by `selector`, each a match on the direction:
\* `Row | RowReverse => ..`, `Column | ColumnReverse => ..`.
Style_select(selector, self, direction) ==
    LET row == direction \in {"Row", "RowReverse"}
    IN CASE selector = "min_main_size" ->
                IF row THEN self.min_size.width ELSE self.min_size.height
         [] selector = "max_main_size" ->
                IF row THEN self.max_size.width ELSE self.max_size.height
         [] selector = "main_margin_start" -> IF row THEN self.margin.left ELSE self.margin.top
         [] selector = "main_margin_end" ->
                IF row THEN self.margin.right ELSE self.margin.bottom
         [] selector = "cross_size" -> IF row THEN self.size.height ELSE self.size.width
         [] selector = "min_cross_size" ->
                IF row THEN self.min_size.height ELSE self.min_size.width
         [] selector = "max_cross_size" ->
                IF row THEN self.max_size.height ELSE self.max_size.width
         [] selector = "cross_margin_start" -> IF row THEN self.margin.top ELSE self.margin.left
         [] selector = "cross_margin_end" ->
                IF row THEN self.margin.bottom ELSE self.margin.right

\* The layout engine reads every selector of the style of one node for the flex
\* direction of its parent.  One style is read in a run.
StyleSelect ==
    /\ ~main_panicked
    /\ style_log = None
    /\ \E self \in Styles, direction \in FlexDirection :
          style_log' = Some([self |-> self, direction |-> direction,
                             value |-> [selector \in Selectors |->
                                           Style_select(selector, self, direction)]])
    /\ UNCHANGED <<ui_states, common_vars, tm_vars, sched_vars, task_vars,
                   thread_vars, tag_vars, api_vars, layout_vars, ptr_vars, id_vars, dim_vars>>

\* ------------------------------------------------------------------ the layout step (ui_state.rs 113-142)
WindowIds == 0..(MaxWindows - 1)

\* The application creates a window: its id becomes a key of AppState::windows.
CreateWindow ==
    /\ ~main_panicked
    /\ \E window_id \in WindowIds \ windows : windows' = windows \cup {window_id}
    /\ UNCHANGED <<frames, layout_log, common_vars, tm_vars, sched_vars, task_vars,
                   thread_vars, tag_vars, api_vars, ptr_vars, id_vars, dim_vars, more_vars>>

\* A window is closed: its id leaves AppState::windows.
CloseWindow ==
    /\ ~main_panicked
    /\ \E window_id \in windows : windows' = windows \ {window_id}
    /\ UNCHANGED <<frames, layout_log, common_vars, tm_vars, sched_vars, task_vars,
                   thread_vars, tag_vars, api_vars, ptr_vars, id_vars, dim_vars, more_vars>>

\* A ui_state_from_app_state that calls the layout callback before it looks up the window.
ui_state_from_app_state_layout_first(app_state, window_id, parent_dom, layout_dom, dom_counter) ==
    IF window_id \notin app_state.windows
    THEN [result |-> Err("WindowIndexError"), layout_called |-> TRUE, app_state |-> app_state]
    ELSE [result |-> Ok(ui_state_from_dom(layout_dom, parent_dom, dom_counter)),
          layout_called |-> TRUE, app_state |-> app_state]

\* ui_state_from_app_state as the library is built (the #[cfg(not(test))] block):
\* `app_state.windows.get_mut(window_id).ok_or(WindowIndexError)?`, then the layout
\* callback, whose tree is layout_dom, then `Ok(ui_state_from_dom(dom, parent_dom))`.
ui_state_from_app_state(app_state, window_id, parent_dom, layout_dom, dom_counter) ==
    IF window_id \notin app_state.windows
    THEN [result |-> Err("WindowIndexError"), layout_called |-> FALSE, app_state |-> app_state]
    ELSE [result |-> Ok(ui_state_from_dom(layout_dom, parent_dom, dom_counter)),
          layout_called |-> TRUE, app_state |-> app_state]

\* The layout step of a frame for one window.  On an error the frame is skipped: the
\* UiState of the frame before stays, and the run goes on.
LayoutStep(doms) ==
    /\ ~main_panicked
    /\ frames < MaxLayoutSteps
    /\ \E window_id \in WindowIds, dom \in doms, parent_dom \in ParentDomNodeIds :
          LET app_state == [windows |-> windows, timers |-> timers, tasks |-> tasks]
              r == ui_state_from_app_state(app_state, window_id, parent_dom, dom, DOM_ID)
          IN /\ windows' = r.app_state.windows
             /\ timers' = r.app_state.timers
             /\ tasks' = r.app_state.tasks
             /\ IF r.result[1] = "Ok"
                THEN /\ ui_state' = Some(r.result[2].ui_state)
                     /\ TAG_ID' = r.result[2].TAG_ID
                     /\ DOM_ID' = r.result[2].DOM_ID
                ELSE UNCHANGED <<ui_state, TAG_ID, DOM_ID>>
             /\ layout_log' = Some([window_id |-> window_id,
                                    known |-> window_id \in windows,
                                    result |-> IF r.result[1] = "Ok" THEN "Ok" ELSE r.result,
                                    layout_called |-> r.layout_called,
                                    unchanged |-> r.app_state = app_state,
                                    ui_state |-> ui_state,
                                    after_error |-> IsSome(layout_log)
                                                    /\ (Unwrap(layout_log).result # "Ok"
                                                        \/ Unwrap(layout_log).after_error)])
    /\ frames' = frames + 1
    /\ UNCHANGED <<ui_state_prev, hover_log, MAX_DAEMON_ID, workers, phase, pending, redraw,
                   layout_ran, timers_redraw, votes, last_eval, cont_log,
                   common_vars, tm_vars, task_vars, thread_vars, api_vars,
                   ptr_vars, id_vars, dim_vars, more_vars>>

Init ==
    /\ now = 0
    /\ main_panicked = FALSE
    /\ tm_timer = None
    /\ tm_alive = FALSE
    /\ tm_last_eval = None
    /\ tm_prev_call = None
    /\ tm_last_call = None
    /\ timers = EmptyMap
    /\ tasks = <<>>
    /\ MAX_DAEMON_ID = 0
    /\ workers = <<>>
    /\ phase = "input"
    /\ pending = {}
    /\ redraw = DontRedraw
    /\ layout_ran = FALSE
    /\ timers_redraw = DontRedraw
    /\ votes = [frame |-> FALSE, timers |-> FALSE]
    /\ last_eval = None
    /\ cont_log = EmptyMap
    /\ fin_seen = {}
    /\ fin_last = None
    /\ drop_log = None
    /\ threads = <<>>
    /\ crashed = FALSE
    /\ TAG_ID = reset_tag_id
    /\ DOM_ID = 0
    /\ ui_state = None
    /\ ui_state_prev = None
    /\ hover_log = None
    /\ api_log = None
    /\ deleted = {}
    /\ windows = {}
    /\ frames = 0
    /\ layout_log = None
    /\ ptr = None
    /\ ptr_copy = None
    /\ ptr_log = None
    /\ cast_log = None
    /\ issued = <<>>
    /\ resolve_log = None
    /\ style_log = None
    /\ ui_states = [tree \in Trees |-> [assigned |-> None, ui_state |-> None, hovered |-> FALSE]]

NextTimer ==
    \/ TmNew
    \/ TmEvaluate
    \/ Tick /\ UNCHANGED <<tm_vars, sched_vars, task_vars, thread_vars, tag_vars, api_vars, rest_vars>>

SpecTimer == Init /\ [][NextTimer]_vars

\* What the frame driver and the workers do, whatever the clock does.
Driver(configs) ==
    \/ CbAddTimer(configs) /\ UNCHANGED <<common_vars, tm_vars, task_vars, thread_vars, tag_vars, api_vars, rest_vars>>
    \/ CbDeleteTimer /\ UNCHANGED <<common_vars, tm_vars, task_vars, thread_vars, tag_vars, api_vars, rest_vars>>
    \/ CbAddTask(configs) /\ UNCHANGED <<common_vars, tm_vars, task_vars, thread_vars, tag_vars, api_vars, rest_vars>>
    \/ InputDone /\ UNCHANGED <<common_vars, tm_vars, task_vars, thread_vars, tag_vars, api_vars, rest_vars>>
    \/ EvalTimer /\ UNCHANGED <<tm_vars, task_vars, thread_vars, tag_vars, api_vars, rest_vars>>
    \/ TimersDone /\ UNCHANGED <<common_vars, tm_vars, task_vars, thread_vars, tag_vars, api_vars, rest_vars>>
    \/ ReapTasks /\ UNCHANGED <<tm_vars, task_vars, thread_vars, tag_vars, api_vars, rest_vars>>
    \/ FrameEnd /\ UNCHANGED <<common_vars, tm_vars, task_vars, thread_vars, tag_vars, api_vars, rest_vars>>
    \/ WorkerStart /\ UNCHANGED <<common_vars, tm_vars, task_vars, thread_vars, tag_vars, api_vars, rest_vars>>
    \/ WorkerDropCheck /\ UNCHANGED <<common_vars, tm_vars, task_vars, thread_vars, tag_vars, api_vars, rest_vars>>
    \/ WorkerReturn /\ UNCHANGED <<common_vars, tm_vars, task_vars, thread_vars, tag_vars, api_vars, rest_vars>>
    \/ WorkerPanic /\ UNCHANGED <<common_vars, tm_vars, task_vars, thread_vars, tag_vars, api_vars, rest_vars>>

\* The frame driver over frames so short that the clock does not advance.
Next == Driver(FrozenClockConfigs)

\* The frame driver with the clock advancing while it waits for input.
NextClock ==
    \/ Driver(RunningClockConfigs)
    \/ Tick /\ phase = "input" /\ UNCHANGED <<tm_vars, sched_vars, task_vars, thread_vars, tag_vars, api_vars, rest_vars>>

SpecClock == Init /\ [][NextClock]_vars

\* A task, its worker thread, and a main thread that polls and drops it.
\* The scheduler API called between frames; the frames run their timer pass.
NextApi ==
    \/ ApiAddTimer /\ UNCHANGED <<common_vars, tm_vars, task_vars, thread_vars, tag_vars, rest_vars>>
    \/ ApiDeleteTimer /\ UNCHANGED <<common_vars, tm_vars, task_vars, thread_vars, tag_vars, rest_vars>>
    \/ ApiAddTask /\ UNCHANGED <<common_vars, tm_vars, task_vars, thread_vars, tag_vars, rest_vars>>
    \/ InputDone /\ api_log' = None
                 /\ UNCHANGED <<deleted, common_vars, tm_vars, task_vars, thread_vars, tag_vars, rest_vars>>
    \/ EvalTimer /\ UNCHANGED <<tm_vars, task_vars, thread_vars, tag_vars, api_vars, rest_vars>>
    \/ TimersDone /\ UNCHANGED <<common_vars, tm_vars, task_vars, thread_vars, tag_vars, api_vars, rest_vars>>
    \/ ReapTasks /\ UNCHANGED <<tm_vars, task_vars, thread_vars, tag_vars, api_vars, rest_vars>>
    \/ FrameEnd /\ UNCHANGED <<common_vars, tm_vars, task_vars, thread_vars, tag_vars, api_vars, rest_vars>>

SpecApi == Init /\ [][NextApi]_vars

NextTask ==
    \/ TkNew
    \/ TkIsFinished
    \/ TkDrop
    \/ WorkerStart /\ UNCHANGED <<common_vars, tm_vars, task_vars, thread_vars, tag_vars, api_vars, rest_vars>>
    \/ WorkerDropCheck /\ UNCHANGED <<common_vars, tm_vars, task_vars, thread_vars, tag_vars, api_vars, rest_vars>>
    \/ WorkerReturn /\ UNCHANGED <<common_vars, tm_vars, task_vars, thread_vars, tag_vars, api_vars, rest_vars>>
    \/ WorkerPanic /\ UNCHANGED <<common_vars, tm_vars, task_vars, thread_vars, tag_vars, api_vars, rest_vars>>

SpecTask == Init /\ [][NextTask]_vars

\* One-shot Threads, their workers, and a main thread that awaits or drops them.
NextThread ==
    \/ ThNew
    \/ ThWorkerRun
    \/ ThWorkerPanic
    \/ ThAwait
    \/ ThDrop

SpecThread == Init /\ [][NextThread]_vars

\* Tag assignment on one tree out of the bounded input trees.
NextTags ==
    \/ TagAssignment(Doms(MaxNodes, MaxFeatures))
    \/ TagAssignmentAgain

SpecTags == Init /\ [][NextTags]_vars

\* Tag assignment on one tree, followed by style matching with its hover pass.
NextHover ==
    \/ TagAssignment(Doms(MaxNodes, MaxHoverFeatures))
    \/ MatchCssToDom
    \/ MatchCssToDomAgain

SpecHover == Init /\ [][NextHover]_vars

\* Tag assignment on one tree that contains a Button.
NextButton == TagAssignment(ButtonDoms(MaxNodes - 1, MaxHoverFeatures))

SpecButton == Init /\ [][NextButton]_vars

\* Layout steps for windows that come and go, between input callbacks that use the
\* scheduler API.
NextLayout ==
    \/ CreateWindow
    \/ CloseWindow
    \/ LayoutStep(Doms(1, 0))
    \/ CbAddTimer(FrozenClockConfigs)
         /\ UNCHANGED <<common_vars, tm_vars, task_vars, thread_vars, tag_vars, api_vars, rest_vars>>
    \/ CbAddTask(FrozenClockConfigs)
         /\ UNCHANGED <<common_vars, tm_vars, task_vars, thread_vars, tag_vars, api_vars, rest_vars>>

SpecLayout == Init /\ [][NextLayout]_vars

\* Pointers to parts of a value, built, cloned and cast.
NextPtr ==
    \/ PtrNew
    \/ PtrClone
    \/ PtrCast

SpecPtr == Init /\ [][NextPtr]_vars

\* Threads that allocate TimerIds in any interleaving.
NextIds == \E thread \in IdThreads : TimerIdNew(thread)

SpecIds == Init /\ [][NextIds]_vars

\* Dimensions resolved one after the other.
NextDim == DimResolve

SpecDim == Init /\ [][NextDim]_vars

\* The selectors of one Style read for one flex direction.
NextStyle == StyleSelect

SpecStyle == Init /\ [][NextStyle]_vars

\* The two trees of a frame, tag-assigned and hover-passed in any order.
NextTrees ==
    \/ TreeTagAssignment(TreeDoms(MaxNodes))
    \/ TreeMatchCssToDom

SpecTrees == Init /\ [][NextTrees]_vars

\* The frames of an application that spawns several tasks and adds no timers.
NextReap ==
    \/ CbAddTaskOfMany /\ UNCHANGED <<common_vars, tm_vars, task_vars, thread_vars, tag_vars, api_vars, rest_vars>>
    \/ InputDone /\ UNCHANGED <<common_vars, tm_vars, task_vars, thread_vars, tag_vars, api_vars, rest_vars>>
    \/ EvalTimer /\ UNCHANGED <<tm_vars, task_vars, thread_vars, tag_vars, api_vars, rest_vars>>
    \/ TimersDone /\ UNCHANGED <<common_vars, tm_vars, task_vars, thread_vars, tag_vars, api_vars, rest_vars>>
    \/ ReapTasks /\ UNCHANGED <<tm_vars, task_vars, thread_vars, tag_vars, api_vars, rest_vars>>
    \/ FrameEnd /\ UNCHANGED <<common_vars, tm_vars, task_vars, thread_vars, tag_vars, api_vars, rest_vars>>
    \/ WorkerStart /\ UNCHANGED <<common_vars, tm_vars, task_vars, thread_vars, tag_vars, api_vars, rest_vars>>
    \/ WorkerDropCheck /\ UNCHANGED <<common_vars, tm_vars, task_vars, thread_vars, tag_vars, api_vars, rest_vars>>
    \/ WorkerReturn /\ UNCHANGED <<common_vars, tm_vars, task_vars, thread_vars, tag_vars, api_vars, rest_vars>>
    \/ WorkerPanic /\ UNCHANGED <<common_vars, tm_vars, task_vars, thread_vars, tag_vars, api_vars, rest_vars>>

SpecReap == Init /\ [][NextReap]_vars

\* The frame driver with an application that uses up the TimerIds of the process.
NextWrap ==
    \/ Driver(FrozenClockConfigs)
    \/ CbExhaustTimerIds /\ UNCHANGED <<common_vars, tm_vars, task_vars, thread_vars, tag_vars, api_vars, rest_vars>>

SpecWrap == Init /\ [][NextWrap]_vars

Spec == Init /\ [][Next]_vars

\* ------------------------------------------------------------------ claims on Timer::invoke
\* C3: a timer with interval I and delay D and no timeout is never invoked before
\* created + D, two consecutive invocations are at least I apart, and an evaluation
\* with now - last < I (last = last_run, or created + D if it never ran) skips the
\* callback and leaves the timer in the map.
C3_IntervalDelayGating ==
    IsSome(tm_last_eval) =>
        LET e == Unwrap(tm_last_eval)
            b == e.before
        IN (IsSome(b.interval) /\ IsNone(b.timeout)) =>
              /\ e.called => e.at >= b.created + DelayOf(b)
              /\ (IsSome(tm_prev_call) /\ IsSome(tm_last_call)) =>
                    Unwrap(tm_last_call) - Unwrap(tm_prev_call) >= Unwrap(b.interval)
              /\ (e.at - LastRunAnchor(b) < Unwrap(b.interval)) =>
                    (~e.called /\ ~e.panicked /\ tm_alive /\ Unwrap(tm_timer) = b)

\* C4: whatever its configuration, a timer with a delay D is never invoked at an
\* instant earlier than created + D.
C4_DelayedTimerNeverEarly ==
    IsSome(tm_last_eval) =>
        LET e == Unwrap(tm_last_eval)
            b == e.before
        IN (IsSome(b.delay) /\ e.called) => e.at >= b.created + Unwrap(b.delay)

\* C2: an evaluation at an instant with now - created > timeout does not call the
\* callback, yields (DontRedraw, Terminate) and removes the timer from the map,
\* whether or not the interval has elapsed.
C2_TimeoutTerminates ==
    IsSome(tm_last_eval) =>
        LET e == Unwrap(tm_last_eval)
            b == e.before
        IN (IsSome(b.timeout) /\ e.at - b.created > Unwrap(b.timeout)) =>
              /\ ~e.called
              /\ ~e.panicked
              /\ e.ret = <<DontRedraw, Terminate>>
              /\ ~tm_alive
              /\ Unwrap(tm_timer).last_run = b.last_run

\* A timer was terminated by its timeout at an evaluation where its interval had not elapsed.
C2_Witness ==
    /\ IsSome(tm_last_eval)
    /\ LET e == Unwrap(tm_last_eval)
           b == e.before
       IN /\ IsSome(b.timeout) /\ e.at - b.created > Unwrap(b.timeout)
          /\ IsSome(b.interval) /\ e.at - LastRunAnchor(b) < Unwrap(b.interval)
          /\ ~tm_alive

\* C32: an evaluation that calls the callback sets last_run to the instant sampled at
\* its start, also when the callback takes time and when it returns Terminate, and
\* returns the pair of the callback unchanged; after Terminate the timer is out of the
\* map and is not evaluated again, after Continue it is still in the map.
C32_CalledTimer ==
    /\ [](IsSome(tm_last_eval) =>
             LET e == Unwrap(tm_last_eval)
             IN e.called =>
                   /\ Unwrap(tm_timer).last_run = Some(e.at)
                   /\ e.ret = Unwrap(e.cb_ret)
                   /\ e.ret[2] = Terminate => ~tm_alive
                   /\ e.ret[2] = Continue => tm_alive)
    /\ [][(IsSome(tm_last_eval) /\ Unwrap(tm_last_eval).called
             /\ Unwrap(tm_last_eval).ret[2] = Terminate)
          => (tm_last_eval' = tm_last_eval /\ tm_timer' = tm_timer)]_vars

\* The callback of a timer was called, ran while the clock went on and returned
\* (Redraw, Terminate): last_run is the earlier instant, and the timer has left the map.
C32_Witness ==
    /\ IsSome(tm_last_eval)
    /\ Unwrap(tm_last_eval).called
    /\ Unwrap(tm_last_eval).ret = <<Redraw, Terminate>>
    /\ now > Unwrap(tm_last_eval).at
    /\ Unwrap(tm_timer).last_run = Some(Unwrap(tm_last_eval).at)
    /\ ~tm_alive

\* C37: an evaluation never changes created, delay, interval, timeout or callback of
\* the timer, and one that does not call the callback (interval not elapsed, timeout
\* reached) leaves last_run as it was, so the instant the timer is next due at stays.
C37_InvokeFrame ==
    IsSome(tm_last_eval) =>
        LET e == Unwrap(tm_last_eval)
            b == e.before
            a == Unwrap(tm_timer)
        IN /\ a.created = b.created
           /\ a.delay = b.delay
           /\ a.interval = b.interval
           /\ a.timeout = b.timeout
           /\ a.callback = b.callback
           /\ ~e.called => (a.last_run = b.last_run /\ LastRunAnchor(a) = LastRunAnchor(b))

\* A timer that ran before was evaluated again before its interval had elapsed: the
\* callback was skipped and last_run is still the instant of the earlier run.
C37_Witness ==
    /\ IsSome(tm_last_eval)
    /\ ~Unwrap(tm_last_eval).called
    /\ ~Unwrap(tm_last_eval).panicked
    /\ Unwrap(tm_last_eval).ret = <<DontRedraw, Continue>>
    /\ IsSome(Unwrap(tm_last_eval).before.last_run)
    /\ IsSome(Unwrap(tm_last_eval).before.interval)
    /\ Unwrap(tm_timer).last_run = Unwrap(tm_last_eval).before.last_run

C6_ContinuationInvoked ==
    \A id \in DOMAIN cont_log : id \notin DOMAIN timers => cont_log[id].called

\* ------------------------------------------------------------------ claims on Task
\* C7: is_finished returns true once the worker has returned (its DropCheck is
\* dropped), and a task for which it has returned true never returns false later.
C7_IsFinishedMonotone ==
    IsSome(fin_last) =>
        LET q == Unwrap(fin_last)
        IN /\ (q.worker_state \in {"returned", "panicked"} \/ q.check_dropped) => q.result
           /\ q.seen_before => q.result

\* is_finished returned true for a task whose worker has returned, after it had
\* already returned true for that task before.
C7_Witness ==
    /\ IsSome(fin_last)
    /\ Unwrap(fin_last).seen_before
    /\ Unwrap(fin_last).result
    /\ Unwrap(fin_last).worker_state = "returned"

\* C40: is_finished never reports completion early: a call made between the spawn of
\* the task and the moment its worker drops the DropCheck returns false, whatever the
\* interleaving of the worker with the calls of the main thread.
C40_NeverFinishedEarly ==
    IsSome(fin_last) =>
        LET q == Unwrap(fin_last)
        IN (q.worker_state \in {"spawned", "running"} /\ ~q.check_dropped) => ~q.result

\* is_finished returned false for a task whose thread has been spawned and has not
\* started to run, after it had returned true for another task.
C40_Witness ==
    /\ IsSome(fin_last)
    /\ ~Unwrap(fin_last).result
    /\ Unwrap(fin_last).worker_state = "spawned"
    /\ ~Unwrap(fin_last).check_dropped
    /\ fin_seen # {}

\* C8: dropping a Task whose worker thread panicked does not panic the main thread.
C8_DropAfterWorkerPanic ==
    IsSome(drop_log) =>
        (Unwrap(drop_log).worker_state = "panicked" =>
            (~Unwrap(drop_log).panicked /\ ~main_panicked))

\* ------------------------------------------------------------------ claims on Thread
\* C9: the drop of a Thread panics if and only if await was never called on it.
C9_DropPanicsIffNotAwaited ==
    \A k \in DOMAIN threads :
        threads[k].dropped # "no" =>
            (threads[k].dropped = "panicked" <=> ~threads[k].awaited)

\* One Thread was awaited (with an Err) and dropped without a panic, another one
\* was dropped without await and panicked.
C9_Witness ==
    \E j, k \in DOMAIN threads :
        /\ threads[j].awaited /\ threads[j].dropped = "clean"
        /\ threads[j].outcome = Some(Err("ThreadJoinError"))
        /\ ~threads[k].awaited /\ threads[k].dropped = "panicked"

\* C10: an await that was started after the worker ended returns Ok(callback(input))
\* of its own input if the worker returned, and Err(ThreadJoinError) if it panicked,
\* without the caller panicking or dying.
C10_AwaitCharacterisesOutcome ==
    \A k \in DOMAIN threads :
        threads[k].awaited =>
            /\ threads[k].wstate = "returned" =>
                  threads[k].outcome = Some(Ok(callback(threads[k].input)))
            /\ threads[k].wstate = "panicked" =>
                  threads[k].outcome = Some(Err("ThreadJoinError"))
            /\ threads[k].dropped = "clean"

\* ------------------------------------------------------------------ claims on tag assignment
\* C1: at the end of ui_state_from_dom, node_ids_to_tag_ids and tag_ids_to_node_ids
\* are mutually inverse: (n, t) is in the one if and only if (t, n) is in the other.
C1_TagMapsMutuallyInverse ==
    IsSome(ui_state) =>
        LET ui == Unwrap(ui_state)
        IN /\ \A n \in DOMAIN ui.node_ids_to_tag_ids :
                 LET t == ui.node_ids_to_tag_ids[n]
                 IN t \in DOMAIN ui.tag_ids_to_node_ids /\ ui.tag_ids_to_node_ids[t] = n
           /\ \A t \in DOMAIN ui.tag_ids_to_node_ids :
                 LET n == ui.tag_ids_to_node_ids[t]
                 IN n \in DOMAIN ui.node_ids_to_tag_ids /\ ui.node_ids_to_tag_ids[n] = t

\* Tag assignment ran on a tree in which two nodes were given a tag each.
C1_Witness ==
    /\ IsSome(ui_state)
    /\ Cardinality(DOMAIN Unwrap(ui_state).node_ids_to_tag_ids) >= 2
    /\ Cardinality(DOMAIN Unwrap(ui_state).tag_ids_to_node_ids) >= 2

\* C16: a node without an explicit tab index and without a focus callback or focus
\* default callback of its own has no entry in tab_index_tags, whatever the other nodes
\* of the tree carry.
C16_AutoTabIndexOnlyOwnFocus ==
    IsSome(ui_state) =>
        LET ui == Unwrap(ui_state)
        IN \A k \in 1..Len(ui.dom) :
              ( /\ IsNone(ui.dom[k].tab_index)
                /\ \A ef \in DOMAIN ui.dom[k].callbacks : IsNone(as_focus_event_filter(ef))
                /\ \A ef \in DOMAIN ui.dom[k].default_callback_ids :
                      IsNone(as_focus_event_filter(ef)) )
              => \A t \in DOMAIN ui.tab_index_tags : ui.tab_index_tags[t][1] # k - 1

\* C17: a node whose only subscriptions are window callbacks or window default
\* callbacks (not draggable, no explicit tab index) is not a key of node_ids_to_tag_ids,
\* and its callbacks are recorded in window_callbacks / window_default_callbacks.
C17_WindowCallbacksNeverTag ==
    IsSome(ui_state) =>
        LET ui == Unwrap(ui_state)
        IN \A k \in 1..Len(ui.dom) :
              LET node == ui.dom[k]
              IN ( /\ DOMAIN node.callbacks \cup DOMAIN node.default_callback_ids # {}
                   /\ \A ef \in DOMAIN node.callbacks \cup DOMAIN node.default_callback_ids :
                         IsSome(as_window_event_filter(ef))
                   /\ ~node.is_draggable
                   /\ IsNone(node.tab_index) )
                 => /\ (k - 1) \notin DOMAIN ui.node_ids_to_tag_ids
                    /\ DOMAIN node.callbacks # {} => (k - 1) \in DOMAIN ui.window_callbacks
                    /\ DOMAIN node.default_callback_ids # {} =>
                          (k - 1) \in DOMAIN ui.window_default_callbacks

\* C18: a node is given at most one tag by a tag-assignment pass: every entry of
\* draggable_tags, tab_index_tags and tag_ids_to_node_ids for the node is under the tag
\* that node_ids_to_tag_ids holds for it, and a draggable node that has a tab index is
\* under that one tag in all three maps.
C18_OneTagPerNode ==
    IsSome(ui_state) =>
        LET ui == Unwrap(ui_state)
        IN \A k \in 1..Len(ui.dom) :
              LET n == k - 1
                  tags == {t \in DOMAIN ui.draggable_tags : ui.draggable_tags[t] = n}
                          \cup {t \in DOMAIN ui.tab_index_tags : ui.tab_index_tags[t][1] = n}
                          \cup {t \in DOMAIN ui.tag_ids_to_node_ids :
                                   ui.tag_ids_to_node_ids[t] = n}
              IN /\ Cardinality(tags) <= 1
                 /\ tags # {} => (n \in DOMAIN ui.node_ids_to_tag_ids
                                  /\ tags = {ui.node_ids_to_tag_ids[n]})
                 /\ (ui.dom[k].is_draggable /\ IsSome(ui.dom[k].tab_index)) =>
                       /\ n \in DOMAIN ui.node_ids_to_tag_ids
                       /\ LET t == ui.node_ids_to_tag_ids[n]
                          IN /\ t \in DOMAIN ui.draggable_tags /\ ui.draggable_tags[t] = n
                             /\ t \in DOMAIN ui.tab_index_tags /\ ui.tab_index_tags[t][1] = n
                             /\ t \in DOMAIN ui.tag_ids_to_node_ids
                             /\ ui.tag_ids_to_node_ids[t] = n

\* Tag assignment ran on a tree with a node that is draggable and has an explicit
\* tab index, and the node's tag is a key of draggable_tags and of tab_index_tags.
C18_Witness ==
    /\ IsSome(ui_state)
    /\ \E k \in 1..Len(Unwrap(ui_state).dom) :
          /\ Unwrap(ui_state).dom[k].is_draggable
          /\ IsSome(Unwrap(ui_state).dom[k].tab_index)
          /\ (k - 1) \in DOMAIN Unwrap(ui_state).node_ids_to_tag_ids
          /\ Unwrap(ui_state).node_ids_to_tag_ids[k - 1]
                \in DOMAIN Unwrap(ui_state).draggable_tags
                    \cap DOMAIN Unwrap(ui_state).tab_index_tags

\* C19 as stated: no tag is a key of both tab_index_tags and draggable_tags.
C19_TabIndexDraggableDisjoint ==
    IsSome(ui_state) =>
        DOMAIN Unwrap(ui_state).tab_index_tags \cap DOMAIN Unwrap(ui_state).draggable_tags = {}

\* C19, amended: a key of draggable_tags and a key of tab_index_tags are the same tag
\* exactly when the two entries are for the same node; a tag in both maps therefore
\* belongs to one node that is draggable and has a tab index.
C19_SharedTagSameNode ==
    IsSome(ui_state) =>
        LET ui == Unwrap(ui_state)
        IN \A d \in DOMAIN ui.draggable_tags, t \in DOMAIN ui.tab_index_tags :
              /\ (d = t) <=> (ui.draggable_tags[d] = ui.tab_index_tags[t][1])
              /\ ui.dom[ui.draggable_tags[d] + 1].is_draggable

\* Tag assignment ran on a tree in which one tag is a key of both maps, for a draggable
\* node that has a tab index.
C19_Witness ==
    /\ IsSome(ui_state)
    /\ \E t \in DOMAIN Unwrap(ui_state).draggable_tags \cap DOMAIN Unwrap(ui_state).tab_index_tags :
          Unwrap(ui_state).draggable_tags[t] = Unwrap(ui_state).tab_index_tags[t][1]

C22_CallbackOnlyTree ==
    (IsSome(ui_state) /\ IsNone(hover_log)) =>
        LET ui == Unwrap(ui_state)
            nodes == 1..Len(ui.dom)
            subs(k) == DOMAIN ui.dom[k].callbacks \cup DOMAIN ui.dom[k].default_callback_ids
            tagged == {k - 1 : k \in {j \in nodes : \E ef \in subs(j) : ef[1] \in {"Hover", "Not"}}}
        IN (\A k \in nodes :
               /\ ~ui.dom[k].is_draggable
               /\ IsNone(ui.dom[k].tab_index)
               /\ \A ef \in subs(k) : IsNone(as_focus_event_filter(ef)))
           => /\ ui.draggable_tags = EmptyMap
              /\ ui.tab_index_tags = EmptyMap
              /\ {ui.tag_ids_to_node_ids[t] : t \in DOMAIN ui.tag_ids_to_node_ids} = tagged
              /\ Cardinality(DOMAIN ui.tag_ids_to_node_ids) = Cardinality(tagged)
              /\ \A k \in nodes :
                    /\ \A ef \in DOMAIN ui.dom[k].callbacks :
                          /\ ef[1] = "Hover" =>
                                ui.hover_callbacks[k - 1][ef[2]] = ui.dom[k].callbacks[ef]
                          /\ ef[1] = "Not" =>
                                ui.not_callbacks[k - 1][ef[2]] = ui.dom[k].callbacks[ef]
                    /\ \A ef \in DOMAIN ui.dom[k].default_callback_ids :
                          /\ ef[1] = "Hover" =>
                                ui.hover_default_callbacks[k - 1][ef[2]]
                                    = ui.dom[k].default_callback_ids[ef]
                          /\ ef[1] = "Not" =>
                                ui.not_default_callbacks[k - 1][ef[2]]
                                    = ui.dom[k].default_callback_ids[ef]

\* Tag assignment ran on a tree of two plain nodes, one with a hover callback on
\* MouseUp and one with a window callback only: one tag, for the first of them.
C22_Witness ==
    /\ IsSome(ui_state)
    /\ IsNone(hover_log)
    /\ Len(Unwrap(ui_state).dom) = 2
    /\ Unwrap(ui_state).draggable_tags = EmptyMap
    /\ Unwrap(ui_state).tab_index_tags = EmptyMap
    /\ Cardinality(DOMAIN Unwrap(ui_state).tag_ids_to_node_ids) = 1
    /\ \E n \in DOMAIN Unwrap(ui_state).hover_callbacks :
          /\ "MouseUp" \in DOMAIN Unwrap(ui_state).hover_callbacks[n]
          /\ Unwrap(ui_state).hover_callbacks[n]["MouseUp"] = "cb"
    /\ DOMAIN Unwrap(ui_state).window_callbacks # {}

\* ------------------------------------------------------------------ claims on the hover pass
\* C21: after tag assignment and after the hover pass, every tag of tag_ids_to_node_ids
\* belongs to a node with an entry in a hover, focus or not callback map (regular or
\* default), or is a key of draggable_tags, tab_index_tags or
\* tag_ids_to_hover_active_states.
C21_NoTagWithoutReason ==
    IsSome(ui_state) =>
        LET ui == Unwrap(ui_state)
        IN \A t \in DOMAIN ui.tag_ids_to_node_ids :
              \/ ui.tag_ids_to_node_ids[t] \in
                    DOMAIN ui.hover_callbacks \cup DOMAIN ui.hover_default_callbacks
                    \cup DOMAIN ui.focus_callbacks \cup DOMAIN ui.focus_default_callbacks
                    \cup DOMAIN ui.not_callbacks \cup DOMAIN ui.not_default_callbacks
              \/ t \in DOMAIN ui.draggable_tags \cup DOMAIN ui.tab_index_tags
                       \cup DOMAIN ui.tag_ids_to_hover_active_states

\* The hover pass ran on a tree with an untagged node beside a node tagged for a
\* callback: one tag is there for the hover state only, another for the callback only.
C21_Witness ==
    /\ IsSome(ui_state)
    /\ IsSome(hover_log)
    /\ \E t \in DOMAIN Unwrap(ui_state).tag_ids_to_hover_active_states :
          /\ t \notin DOMAIN Unwrap(ui_state).draggable_tags
                       \cup DOMAIN Unwrap(ui_state).tab_index_tags
          /\ Unwrap(ui_state).tag_ids_to_node_ids[t] \notin
                DOMAIN Unwrap(ui_state).hover_callbacks \cup DOMAIN Unwrap(ui_state).not_callbacks
    /\ \E t \in DOMAIN Unwrap(ui_state).tag_ids_to_node_ids :
          /\ t \notin DOMAIN Unwrap(ui_state).tag_ids_to_hover_active_states
          /\ Unwrap(ui_state).tag_ids_to_node_ids[t] \in
                DOMAIN Unwrap(ui_state).hover_callbacks \cup DOMAIN Unwrap(ui_state).not_callbacks

C36_HoverPassOnlyAdds ==
    IsSome(hover_log) =>
        LET b == Unwrap(hover_log).ui_state
            a == Unwrap(ui_state)
        IN /\ a.tab_index_tags = b.tab_index_tags
           /\ a.draggable_tags = b.draggable_tags
           /\ a.hover_callbacks = b.hover_callbacks
           /\ a.hover_default_callbacks = b.hover_default_callbacks
           /\ a.focus_callbacks = b.focus_callbacks
           /\ a.focus_default_callbacks = b.focus_default_callbacks
           /\ a.not_callbacks = b.not_callbacks
           /\ a.not_default_callbacks = b.not_default_callbacks
           /\ a.window_callbacks = b.window_callbacks
           /\ a.window_default_callbacks = b.window_default_callbacks
           /\ a.dynamic_css_overrides = b.dynamic_css_overrides
           /\ a.dom = b.dom
           /\ a.dom_id = b.dom_id
           /\ \A n \in DOMAIN b.node_ids_to_tag_ids :
                 /\ n \in DOMAIN a.node_ids_to_tag_ids
                 /\ a.node_ids_to_tag_ids[n] = b.node_ids_to_tag_ids[n]
           /\ DOMAIN Unwrap(hover_log).hover_nodes = {} =>
                 (a = b /\ TAG_ID = Unwrap(hover_log).TAG_ID)

\* The hover pass ran on a tree with a draggable node that is a hover node as well, and
\* gave a tag to another hover node: the draggable tag is as before.
C36_Witness ==
    /\ IsSome(hover_log)
    /\ Unwrap(hover_log).run = 1
    /\ DOMAIN Unwrap(hover_log).ui_state.draggable_tags # {}
    /\ \E n \in DOMAIN Unwrap(hover_log).hover_nodes :
          n \in DOMAIN Unwrap(hover_log).ui_state.node_ids_to_tag_ids
    /\ TAG_ID > Unwrap(hover_log).TAG_ID
    /\ Unwrap(ui_state).draggable_tags = Unwrap(hover_log).ui_state.draggable_tags

C29_ButtonRootTagged ==
    /\ \A content \in ButtonContent :
          LET dom == Button_dom(content)
          IN /\ dom.node_layout[1].parent = None
             /\ dom.node_data[1].classes = {"__azul-native-button"}
             /\ dom.node_data[1].tab_index = Some("Auto")
             /\ Cardinality({k \in 1..Len(dom.node_layout) :
                                dom.node_layout[k].parent = Some(0)}) = 1
    /\ IsSome(ui_state) =>
          LET ui == Unwrap(ui_state)
          IN \A k \in 1..Len(ui.dom) :
                "__azul-native-button" \in ui.dom[k].classes =>
                    LET n == k - 1
                        tags == {t \in DOMAIN ui.draggable_tags : ui.draggable_tags[t] = n}
                                \cup {t \in DOMAIN ui.tab_index_tags :
                                         ui.tab_index_tags[t][1] = n}
                                \cup {t \in DOMAIN ui.tag_ids_to_node_ids :
                                         ui.tag_ids_to_node_ids[t] = n}
                    IN /\ n \in DOMAIN ui.node_ids_to_tag_ids
                       /\ tags = {ui.node_ids_to_tag_ids[n]}
                       /\ ui.node_ids_to_tag_ids[n] \in DOMAIN ui.tab_index_tags
                       /\ ui.tab_index_tags[ui.node_ids_to_tag_ids[n]] = <<n, "Auto">>

\* Tag assignment ran on a tree in which a Button without any callback comes after
\* another node, and the button root has a tag with TabIndex::Auto.
C29_Witness ==
    /\ IsSome(ui_state)
    /\ \E k \in 2..Len(Unwrap(ui_state).dom) :
          /\ "__azul-native-button" \in Unwrap(ui_state).dom[k].classes
          /\ DOMAIN Unwrap(ui_state).dom[k].callbacks = {}
          /\ DOMAIN Unwrap(ui_state).dom[k].default_callback_ids = {}
          /\ (k - 1) \in DOMAIN Unwrap(ui_state).node_ids_to_tag_ids
          /\ Unwrap(ui_state).tab_index_tags[Unwrap(ui_state).node_ids_to_tag_ids[k - 1]]
                = <<k - 1, "Auto">>

C27_IdsDistinctAndIncreasing ==
    \A i \in 1..Len(issued) : \A j \in 1..Len(issued) :
        i < j => /\ issued[i].id # issued[j].id
                 /\ issued[i].thread = issued[j].thread => issued[i].id < issued[j].id

\* C28: an overflow of the id counter is fatal: the allocation made when the counter
\* is at its largest value is the last one that hands out an id (a further allocation
\* aborts the program), so no id that was already issued is handed out again.
C28_OverflowIsFatal ==
    \A i \in 1..Len(issued) : issued[i].counter = UsizeMax => i = Len(issued)

\* ------------------------------------------------------------------ claims on Dimension::resolve
\* C30: Pixels(x) resolves to Defined(x) whatever the parent is; Percent(x) resolves to
\* Defined(parent * x / 100) when the parent is Defined(parent) and to Undefined when
\* the parent is Undefined; Auto and Undefined resolve to Undefined.
C30_DimensionResolve ==
    IsSome(resolve_log) =>
        LET r == Unwrap(resolve_log)
        IN /\ r.self[1] = "Pixels" => r.result = Defined(r.self[2])
           /\ (r.self[1] = "Percent" /\ r.parent_width[1] = "Defined") =>
                 /\ r.result[1] = "Defined"
                 /\ r.result[2][1] * (r.parent_width[2][2] * r.self[2][2] * 100)
                       = r.result[2][2] * (r.parent_width[2][1] * r.self[2][1])
           /\ (r.self[1] = "Percent" /\ r.parent_width[1] = "Undefined") =>
                 r.result = Number_Undefined
           /\ r.self[1] \in {"Auto", "Undefined"} => r.result = Number_Undefined

\* A percentage was resolved against a defined parent size, and the result is a
\* defined size other than the percentage and other than the parent size.
C30_Witness ==
    /\ IsSome(resolve_log)
    /\ Unwrap(resolve_log).self[1] = "Percent"
    /\ Unwrap(resolve_log).parent_width[1] = "Defined"
    /\ Unwrap(resolve_log).result[1] = "Defined"
    /\ Unwrap(resolve_log).result[2] \notin
          {<<0, 1>>, Unwrap(resolve_log).self[2], Unwrap(resolve_log).parent_width[2]}

\* ------------------------------------------------------------------ claims on the Style selectors
\* C31 as stated: every selector, the cross-axis ones included, returns the width-side
\* value (width, left or right margin) for Row and RowReverse and the height-side
\* value (height, top or bottom margin) for Column and ColumnReverse.
C31_AllSelectorsWidthSideForRows ==
    IsSome(style_log) =>
        LET l == Unwrap(style_log)
            row == l.direction \in {"Row", "RowReverse"}
            width_side == {l.self.size.width, l.self.min_size.width, l.self.max_size.width,
                           l.self.margin.left, l.self.margin.right}
            height_side == {l.self.size.height, l.self.min_size.height,
                            l.self.max_size.height, l.self.margin.top, l.self.margin.bottom}
        IN \A selector \in Selectors :
              l.value[selector] \in (IF row THEN width_side ELSE height_side)

\* C31, amended: the main-axis selectors return the width-side value (min and max
\* width, left and right margin) for Row and RowReverse and the height-side value (min
\* and max height, top and bottom margin) for Column and ColumnReverse; the cross-axis
\* selectors return the other side: height, min and max height, top and bottom margin
\* for the row directions, width, min and max width, left and right margin for the
\* column directions.
C31_MainAndCrossSelectors ==
    IsSome(style_log) =>
        LET l == Unwrap(style_log)
            v == l.value
            st == l.self
        IN IF l.direction \in {"Row", "RowReverse"}
           THEN /\ v["min_main_size"] = st.min_size.width
                /\ v["max_main_size"] = st.max_size.width
                /\ v["main_margin_start"] = st.margin.left
                /\ v["main_margin_end"] = st.margin.right
                /\ v["cross_size"] = st.size.height
                /\ v["min_cross_size"] = st.min_size.height
                /\ v["max_cross_size"] = st.max_size.height
                /\ v["cross_margin_start"] = st.margin.top
                /\ v["cross_margin_end"] = st.margin.bottom
           ELSE /\ v["min_main_size"] = st.min_size.height
                /\ v["max_main_size"] = st.max_size.height
                /\ v["main_margin_start"] = st.margin.top
                /\ v["main_margin_end"] = st.margin.bottom
                /\ v["cross_size"] = st.size.width
                /\ v["min_cross_size"] = st.min_size.width
                /\ v["max_cross_size"] = st.max_size.width
                /\ v["cross_margin_start"] = st.margin.left
                /\ v["cross_margin_end"] = st.margin.right

\* The selectors of a style whose width side is all Auto and whose height side is all
\* one length were read for RowReverse: the cross size is the height.
C31_Witness ==
    /\ IsSome(style_log)
    /\ Unwrap(style_log).direction = "RowReverse"
    /\ Unwrap(style_log).self.size.width = <<"Auto">>
    /\ Unwrap(style_log).self.size.height # <<"Auto">>
    /\ Unwrap(style_log).self.min_size.width # Unwrap(style_log).self.min_size.height
    /\ Unwrap(style_log).self.margin.left # Unwrap(style_log).self.margin.top
    /\ Unwrap(style_log).value["cross_size"] = Unwrap(style_log).self.size.height

\* ------------------------------------------------------------------ claims on task reaping
\* C38: transferring a continuation timer never overwrites a live timer: the id from
\* TimerId::new differs from every key of the timer map, so task reaping makes the map
\* grow by exactly one timer for each finished task that has a continuation.
C38_TransferAddsOneTimer ==
    [][(phase = "tasks" /\ phase' = "layout") =>
          Cardinality(DOMAIN timers') =
              Cardinality(DOMAIN timers) + Len(FinishedWithThen(tasks, workers))]_vars

\* C39: task reaping removes from the task list exactly the tasks whose is_finished is
\* true at that moment (a task whose worker still holds its DropCheck stays, and the
\* reaping does not wait for its worker), the tasks that stay keep their order, the
\* timer map gains one timer for each removed task that had a continuation and no
\* other, the timers it had are left as they were, and add_task only appends.
Reaped(k) == ~workers[tasks[k].dropcheck].holds_check

Remaining == SelectSeq(tasks, LAMBDA t : workers[t.dropcheck].holds_check)

C39_ReapExactlyFinished ==
    [][/\ (~main_panicked /\ phase = "tasks" /\ (phase' = "layout" \/ main_panicked')) =>
             /\ tasks' = Remaining
             /\ \A k \in 1..Len(tasks) : Reaped(k) => WorkerEnded(workers, tasks[k].dropcheck)
             /\ ~main_panicked' =>
                   /\ DOMAIN timers \subseteq DOMAIN timers'
                   /\ \A id \in DOMAIN timers : timers'[id] = timers[id]
                   /\ Cardinality(DOMAIN timers' \ DOMAIN timers) =
                         Cardinality({k \in 1..Len(tasks) :
                                        Reaped(k) /\ IsSome(tasks[k].after_completion_timer)})
                   /\ \A id \in DOMAIN timers' \ DOMAIN timers :
                         \E k \in 1..Len(tasks) :
                            /\ Reaped(k)
                            /\ tasks[k].after_completion_timer = Some(timers'[id])
       /\ (phase = "input" /\ tasks' # tasks) =>
             /\ Len(tasks') = Len(tasks) + 1
             /\ SubSeq(tasks', 1, Len(tasks)) = tasks
             /\ timers' = timers
       /\ (phase \notin {"tasks", "input"}) => tasks' = tasks
       /\ (phase # "tasks") => DOMAIN timers' \subseteq DOMAIN timers]_vars

\* A reaping has just removed a finished task and transferred its continuation, and
\* a task that was added after it and is not finished is still in the list.
C39_Witness ==
    /\ phase = "layout"
    /\ ~main_panicked
    /\ \E id \in DOMAIN cont_log : cont_log[id].age = 0 /\ id \in DOMAIN timers
    /\ Len(tasks) >= 1
    /\ \A k \in 1..Len(tasks) :
          /\ workers[tasks[k].dropcheck].holds_check
          /\ \E w \in 1..(tasks[k].dropcheck - 1) : ~workers[w].holds_check

\* ------------------------------------------------------------------ claims on the trees of one frame
\* C33: every ui_state_from_dom resets the tag counter: the tags of each tree, as its
\* tag assignment built it, are the reset value and the values after it, whatever was
\* tagged before; so when both trees of a frame have tags, both have the reset value
\* as a tag, each for a node of its own.
C33_TagCounterResetPerTree ==
    \A tree \in Trees :
        IsSome(ui_states[tree].assigned) =>
            LET ui == Unwrap(ui_states[tree].assigned)
                tags == DOMAIN ui.tag_ids_to_node_ids
            IN /\ tags = {t \in reset_tag_id..(reset_tag_id + Len(ui.dom)) :
                             t < reset_tag_id + Cardinality(tags)}
               /\ \A other \in Trees :
                     (IsSome(ui_states[other].assigned)
                      /\ DOMAIN Unwrap(ui_states[other].assigned).tag_ids_to_node_ids # {}
                      /\ tags # {}) =>
                        reset_tag_id \in tags
                             \cap DOMAIN Unwrap(ui_states[other].assigned).tag_ids_to_node_ids

\* Both trees were tag-assigned, and the same tag denotes node 0 in the one and node 1
\* in the other.
C33_Witness ==
    /\ \A tree \in Trees : IsSome(ui_states[tree].assigned)
    /\ \E t \in DOMAIN Unwrap(ui_states["A"].assigned).tag_ids_to_node_ids :
          /\ t \in DOMAIN Unwrap(ui_states["B"].assigned).tag_ids_to_node_ids
          /\ Unwrap(ui_states["A"].assigned).tag_ids_to_node_ids[t] = 0
          /\ Unwrap(ui_states["B"].assigned).tag_ids_to_node_ids[t] = 1

\* C34: in every order of tag assignments and hover passes on the trees of a frame,
\* node_ids_to_tag_ids and tag_ids_to_node_ids of every UiState are inverse to each
\* other: no tag minted by the hover pass is the tag of another node of the UiState,
\* and no entry is overwritten.
C34_TagMapsInverse ==
    \A tree \in Trees :
        IsSome(ui_states[tree].ui_state) =>
            LET ui == Unwrap(ui_states[tree].ui_state)
            IN /\ \A n \in DOMAIN ui.node_ids_to_tag_ids :
                     /\ ui.node_ids_to_tag_ids[n] \in DOMAIN ui.tag_ids_to_node_ids
                     /\ ui.tag_ids_to_node_ids[ui.node_ids_to_tag_ids[n]] = n
               /\ \A t \in DOMAIN ui.tag_ids_to_node_ids :
                     /\ ui.tag_ids_to_node_ids[t] \in DOMAIN ui.node_ids_to_tag_ids
                     /\ ui.node_ids_to_tag_ids[ui.tag_ids_to_node_ids[t]] = t

\* C35: in every UiState, after tag assignment and after the hover pass, every tag
\* that is a key of tab_index_tags, draggable_tags or tag_ids_to_hover_active_states
\* is a key of tag_ids_to_node_ids, and the node stored with it there is the node
\* stored with it in tag_ids_to_node_ids.
C35_IndexMapsAgree ==
    \A tree \in Trees :
        IsSome(ui_states[tree].ui_state) =>
            LET ui == Unwrap(ui_states[tree].ui_state)
            IN /\ \A t \in DOMAIN ui.tab_index_tags :
                     /\ t \in DOMAIN ui.tag_ids_to_node_ids
                     /\ ui.tab_index_tags[t][1] = ui.tag_ids_to_node_ids[t]
               /\ \A t \in DOMAIN ui.draggable_tags :
                     /\ t \in DOMAIN ui.tag_ids_to_node_ids
                     /\ ui.draggable_tags[t] = ui.tag_ids_to_node_ids[t]
               /\ \A t \in DOMAIN ui.tag_ids_to_hover_active_states :
                     /\ t \in DOMAIN ui.tag_ids_to_node_ids
                     /\ ui.tag_ids_to_hover_active_states[t][1] = ui.tag_ids_to_node_ids[t]

C14_AddTimerInsertsOrReplaces ==
    (IsSome(api_log) /\ Unwrap(api_log).op = "add_timer") =>
        LET call == Unwrap(api_log)
        IN /\ has_timer(timers, call.id)
           /\ get_timer(timers, call.id) = call.timer
           /\ \A k \in 0..MaxApiTimerIds :
                 k # call.id => get_timer(timers, k) = get_timer(call.timers, k)
           /\ tasks = call.tasks

\* add_timer has replaced a different timer under an id while another timer and a task
\* were held.
C14_Witness ==
    /\ IsSome(api_log)
    /\ Unwrap(api_log).op = "add_timer"
    /\ has_timer(Unwrap(api_log).timers, Unwrap(api_log).id)
    /\ get_timer(Unwrap(api_log).timers, Unwrap(api_log).id) # Unwrap(api_log).timer
    /\ \E k \in DOMAIN timers : k # Unwrap(api_log).id
    /\ tasks # <<>>

\* C15: after delete_timer(id) has_timer(id) is false, and stays false until a timer is
\* added again under id; no timer pass evaluates (hence none invokes) a timer under an
\* id that was deleted and not added again; delete_timer on an id that is not in the
\* map returns None and leaves the map unchanged.
C15_DeleteTimerCancels ==
    /\ \A id \in deleted : ~has_timer(timers, id)
    /\ IsSome(last_eval) => Unwrap(last_eval).id \notin deleted
    /\ (IsSome(api_log) /\ Unwrap(api_log).op = "delete_timer") =>
          LET call == Unwrap(api_log)
          IN /\ ~has_timer(timers, call.id)
             /\ call.ret = get_timer(call.timers, call.id)
             /\ ~has_timer(call.timers, call.id) => (call.ret = None /\ timers = call.timers)

\* A timer was deleted, and a later timer pass has invoked the callback of another timer.
C15_Witness ==
    /\ deleted # {}
    /\ phase = "timers"
    /\ IsSome(last_eval)
    /\ Unwrap(last_eval).called

====
